---- MODULE Spec2Model ----
(***************************************************************************)
(* Model of the photo-feed application: the GET /api/posts handler and its *)
(* pagination, and the client-side interaction handlers (LikeButton,       *)
(* PostCard, PostFeed, PostMenu, PostModal, FollowButton).                 *)
(***************************************************************************)
EXTENDS Integers, Sequences, FiniteSets, TLC

(***************************************************************************)
(* Bounds of the model                                                     *)
(***************************************************************************)
MaxPosts == 3      \* rows in the posts table
MaxFlagActions == 3   \* user actions on the controls with an in-flight flag
MaxLoads == 3      \* GET /api/likes/user requests counted (the count saturates)
MaxTime == 2       \* distinct created_at values
MaxK == 2          \* page sizes used by the paging client
MaxFeed == 2       \* posts a feed is loaded with
MaxLikes0 == 1     \* likes_count of a post when it is loaded
MaxActions == 5    \* user actions on the like and follow controls
MaxComments0 == 3  \* comments_count of a post when it is loaded
MaxFeedActions == 4 \* user actions on the comment forms and lists
MaxClientActions == 3 \* user actions on a feed with all its interactions
MaxPagePosts == 2   \* posts in the store read by GET with likes and comments
MaxCmts == 5        \* rows of the comments table
MaxScrolls == 3     \* observer callbacks and retries of the feed
MaxCTime == 3       \* distinct created_at values of comments
MaxNavActions == 4  \* user actions on the detail navigators
MaxRequests == 2    \* requests to the mutating endpoints

Users == {"u1", "u2"}
None == "none"

\* JavaScript numbers as far as the handlers need them: an integer or NaN
Num(n) == [nan |-> FALSE, v |-> n]
NaN == [nan |-> TRUE, v |-> 0]

(***************************************************************************)
(* Generic helpers                                                         *)
(***************************************************************************)
Min(a, b) == IF a <= b THEN a ELSE b
Max(a, b) == IF a >= b THEN a ELSE b
Range(s) == {s[i] : i \in DOMAIN s}
NoDup(s) == \A i, j \in DOMAIN s : i # j => s[i] # s[j]

\* Array.prototype.slice(0, n)
Take(s, n) == SubSeq(s, 1, Min(n, Len(s)))

(***************************************************************************)
(* Request parameters are raw strings, modelled as sequences of one-       *)
(* character strings; Absent is searchParams.get() returning null.         *)
(***************************************************************************)
Absent == <<"null">>
Digits == {"0", "1", "2", "3", "4", "5", "6", "7", "8", "9"}
DigitVal(c) ==
  CASE c = "0" -> 0 [] c = "1" -> 1 [] c = "2" -> 2 [] c = "3" -> 3
    [] c = "4" -> 4 [] c = "5" -> 5 [] c = "6" -> 6 [] c = "7" -> 7
    [] c = "8" -> 8 [] c = "9" -> 9

\* value of the longest prefix of decimal digits of s, read left to right
RECURSIVE DigitsPrefix(_, _, _)
DigitsPrefix(s, i, acc) ==
  IF i > Len(s) \/ s[i] \notin Digits THEN acc
  ELSE DigitsPrefix(s, i + 1, 10 * acc + DigitVal(s[i]))

\* JavaScript parseInt(s): optional sign, then decimal digits up to the
\* first non-digit; NaN when no digit follows the sign.
ParseInt(s) ==
  LET neg == Len(s) >= 1 /\ s[1] = "-"
      start == IF Len(s) >= 1 /\ s[1] \in {"-", "+"} THEN 2 ELSE 1
  IN IF start > Len(s) \/ s[start] \notin Digits THEN NaN
     ELSE IF neg THEN Num(0 - DigitsPrefix(s, start, 0))
     ELSE Num(DigitsPrefix(s, start, 0))

\* Number.prototype.toString() for 0..99
DigitChar(d) ==
  CASE d = 0 -> "0" [] d = 1 -> "1" [] d = 2 -> "2" [] d = 3 -> "3"
    [] d = 4 -> "4" [] d = 5 -> "5" [] d = 6 -> "6" [] d = 7 -> "7"
    [] d = 8 -> "8" [] d = 9 -> "9"
NumToString(n) ==
  IF n < 10 THEN <<DigitChar(n)>>
  ELSE <<DigitChar(n \div 10), DigitChar(n % 10)>>

\* searchParams.get(name) || dflt : null and "" fall back to the default
OrDefault(raw, dflt) == IF raw = Absent \/ raw = <<>> THEN dflt ELSE raw

\* arithmetic and comparison in which NaN propagates as in JavaScript
NumAdd(a, b) == IF a.nan \/ b.nan THEN NaN ELSE Num(a.v + b.v)
NumGt(a, b) == IF a.nan \/ b.nan THEN FALSE ELSE a.v > b.v
\* Math.min(a, b)
MathMin(a, b) == IF a.nan \/ b.nan THEN NaN ELSE Num(Min(a.v, b.v))

VARIABLES
  clsIn,       \* error classifier: the response status (0 is no response) and the error
  clsOut,      \* error classifier: the ErrorInfo type returned
  activity,    \* ActivityPage: posts, selectedPostId, selectedPostIndex
  dbPosts,     \* posts table: post id -> [user_id, created_at]
  dbUsers,     \* users table: the identities that have a row
  dbComments,  \* comments table: comment id -> [post_id, user_id, created_at, len]
  dbLikes,     \* likes table: <<post id, user>> -> number of rows
  dbFollows,   \* follows table: <<follower, following>> -> number of rows
  dbBlobs,     \* uploads bucket: the posts whose image blob exists
  srvResp,     \* mutating endpoints: the response given last, with its request
  srvPending,  \* mutating endpoints: requests between their lookups and their insert
  srvNext,     \* the ids the store gives to the next post and the next comment
  srvBudget,   \* requests to the mutating endpoints left
  viewer,      \* auth().userId of the request (None when not signed in)
  apiRich,     \* GET /api/posts: isLiked and recentComments of each post of the page
  detailResp,  \* last response of GET /api/posts/[postId]
  apiResp,     \* last response of GET /api/posts
  apiReq,      \* the request that produced apiResp
  pgK,         \* paging client: page size K
  pgOffset,    \* paging client: next offset
  pgPosts,     \* paging client: concatenation of the pages received
  pgHasMore,   \* paging client: last hasMore flag
  pgPages,     \* paging client: number of pages fetched
  pgWhole,     \* paging client: the same range fetched as one page
  feed,        \* PostFeed: isLoading, isLoadingMore, error, isFetchingRef, mounted
  feedReqs,    \* PostFeed.fetchPosts requests outstanding
  feedEvt,     \* the step of the feed taken last
  feedBudget,  \* observer callbacks and retries left
  posts,       \* PostFeed: the loaded posts (useState posts)
  card,        \* PostCard per post: mounted, isLiked, likesCount
  lb,          \* LikeButton per card: isLiked, likesCount, isLoading
  lbReq,       \* LikeButton: the outstanding requests, each with what its handler captured
  tapReqs,     \* PostFeed.handleLike/handleUnlike requests outstanding per post and method
  isSubmitting,      \* CommentForm of each card: isSubmitting
  cmtReqs,           \* PostFeed.handleComment requests outstanding per post
  deletingCommentId, \* CommentList of each card: deletingCommentId (0 is null)
  delReqs,           \* PostFeed.handleCommentDelete requests outstanding
  nextId,            \* id the server gives to the next comment
  isDeleting,        \* PostMenu of each card: isDeleting
  postDelReqs,       \* PostMenu.handleDeleteConfirm requests outstanding
  selectedPostId,    \* PostFeed: selectedPostId (0 is null)
  selectedPostIndex, \* PostFeed: selectedPostIndex
  modal,             \* PostModal: post (loaded or null), its comments_count and comments
  modalForm,         \* PostModal: isSubmitting of its CommentForm, deletingCommentId of its CommentList
  detailReqs,        \* PostModal.loadPostDetail requests outstanding
  modalCmtReqs,      \* PostModal.handleComment requests outstanding
  modalDelReqs,      \* PostModal.handleCommentDelete requests outstanding
  follow,      \* FollowButton: isLoading, optimisticFollowing
  followReq,   \* FollowButton: the outstanding requests, each with what its handler captured
  budget,      \* user actions left
  evt,         \* the handler step taken last
  hist         \* per post: what the like controls have done so far

clsVars == <<clsIn, clsOut>>
navVars == <<activity>>
auxVars == <<clsVars, navVars>>
storeVars == <<dbUsers, dbComments, dbLikes, dbFollows, dbBlobs>>
srvVars == <<srvResp, srvPending, srvNext, srvBudget>>
richVars == <<viewer, apiRich, detailResp>>
apiVars == <<dbPosts, apiResp, apiReq, storeVars, richVars, srvVars>>
scrollVars == <<feed, feedReqs, feedEvt, feedBudget>>
pgVars == <<pgK, pgOffset, pgPosts, pgHasMore, pgPages, pgWhole, scrollVars>>
likeVars == <<card, lb, lbReq, tapReqs, hist>>
followVars == <<follow, followReq>>
cmtVars == <<isSubmitting, cmtReqs, deletingCommentId, delReqs, nextId>>
menuVars == <<isDeleting, postDelReqs>>
modalVars == <<selectedPostId, selectedPostIndex, modal, modalForm, detailReqs,
               modalCmtReqs, modalDelReqs>>

(***************************************************************************)
(* lib/utils/error-handler.ts.  A response is its status, 0 when there is  *)
(* none; an error is "none" (null), a TypeError whose message has "fetch", *)
(* an Error whose message names the network, or any other value.           *)
(***************************************************************************)
Statuses == 100..599
ErrorValues == {"none", "typeErrorFetch", "networkMessage", "other"}

getErrorTypeFromStatusCode(statusCode) ==
  CASE statusCode = 400 -> "BAD_REQUEST"
    [] statusCode = 401 -> "UNAUTHORIZED"
    [] statusCode = 403 -> "FORBIDDEN"
    [] statusCode = 404 -> "NOT_FOUND"
    [] statusCode = 409 -> "CONFLICT"
    [] statusCode \in {500, 502, 503, 504} -> "SERVER_ERROR"
    [] OTHER -> "UNKNOWN_ERROR"

isNetworkError(error) == error \in {"typeErrorFetch", "networkMessage"}

\* the type of the ErrorInfo returned
handleFetchError(response, error) ==
  IF isNetworkError(error) \/ response = 0 THEN "NETWORK_ERROR"
  ELSE getErrorTypeFromStatusCode(response)

NoClassified == "none"
ClassifierIdle ==
  /\ clsIn = [response |-> 0, error |-> "none"]
  /\ clsOut = NoClassified

\* a caller classifies the outcome of a fetch
Classify ==
  /\ clsOut = NoClassified
  /\ clsOut' = handleFetchError(clsIn.response, clsIn.error)
  /\ UNCHANGED clsIn

(***************************************************************************)
(* GET /api/posts                                                          *)
(***************************************************************************)
MaxLimit == Num(50)
DefaultLimit == <<"1", "0">>
DefaultOffset == <<"0">>

\* post ids of the rows matching the optional .eq("user_id", userId)
Matching(db, userId) ==
  {p \in DOMAIN db : userId = None \/ db[p].user_id = userId}

Perms(S) ==
  {f \in [1..Cardinality(S) -> S] : \A i, j \in 1..Cardinality(S) : i # j => f[i] # f[j]}

\* .order("created_at", { ascending: false }): every arrangement of the
\* rows with created_at descending; rows with equal created_at have no
\* order defined by the query.
Ordered(db, S) ==
  {f \in Perms(S) : \A i, j \in DOMAIN f : i < j => db[f[i]].created_at >= db[f[j]].created_at}

\* .range(from, to) sends offset=from and limit=to-from+1 to the store.
\* The outcomes the store can produce for the sorted rows: a window of
\* the rows, or an error for a window it rejects.  A parameter that is
\* not a number is either rejected or ignored by the store.
StoreRange(rows, from, to) ==
  LET n == Len(rows)
      err == [error |-> TRUE, rows |-> <<>>]
      ok(r) == [error |-> FALSE, rows |-> r]
      tail(k) == IF k >= n THEN <<>> ELSE SubSeq(rows, k + 1, n)
  IN IF from.nan THEN {err, ok(rows)}
     ELSE IF from.v < 0 THEN {err}
     ELSE IF to.nan THEN {err, ok(tail(from.v))}
     ELSE IF to.v - from.v + 1 < 0 THEN {err}
     ELSE IF to.v - from.v + 1 = 0 THEN {err, ok(<<>>)}
     ELSE {ok(IF from.v >= n THEN <<>> ELSE SubSeq(rows, from.v + 1, Min(to.v + 1, n)))}

ErrorResponse(st) ==
  [status |-> st, data |-> <<>>, total |-> 0, limit |-> Num(0), offset |-> Num(0),
   hasMore |-> FALSE]

\* The set of responses of the handler for a request on a store content.
GET(db, rawLimit, rawOffset, userId) ==
  LET limit == MathMin(ParseInt(OrDefault(rawLimit, DefaultLimit)), MaxLimit)
      offset == ParseInt(OrDefault(rawOffset, DefaultOffset))
      total == Cardinality(Matching(db, userId))
  IN { IF out.error THEN ErrorResponse(500)
       ELSE IF Len(out.rows) = 0
         THEN [status |-> 200, data |-> <<>>, total |-> 0, limit |-> limit,
               offset |-> offset, hasMore |-> FALSE]
       ELSE [status |-> 200, data |-> out.rows, total |-> total, limit |-> limit,
             offset |-> offset, hasMore |-> NumGt(Num(total), NumAdd(offset, limit))]
        : out \in UNION {StoreRange(rows, offset, NumAdd(NumAdd(offset, limit), Num(-1)))
                          : rows \in Ordered(db, Matching(db, userId))} }

(***************************************************************************)
(* Requests sent to GET /api/posts                                         *)
(***************************************************************************)
RawLimits ==
  {Absent, <<>>, <<"0">>, <<"1">>, <<"2">>, <<"3">>, <<"5", "0">>, <<"5", "1">>,
   <<"-", "1">>, <<"a">>, <<"2", "x">>}
RawOffsets == {Absent, <<"0">>, <<"1">>, <<"2">>, <<"3">>, <<"4">>, <<"-", "1">>}
UserFilters == {None} \cup Users

NoResponse == ErrorResponse(0)
NoRequest == [limit |-> Absent, offset |-> Absent, userId |-> None]

\* the contents of the posts table the model starts from
Stores ==
  UNION {[1..n -> [user_id : Users, created_at : 1..MaxTime]] : n \in 0..MaxPosts}

Requests == [limit : RawLimits, offset : RawOffsets, userId : UserFilters]

\* the handler answers the pending request
ApiGet ==
  /\ apiResp = NoResponse
  /\ apiResp' \in GET(dbPosts, apiReq.limit, apiReq.offset, apiReq.userId)
  /\ UNCHANGED <<dbPosts, apiReq, storeVars, richVars, srvVars>>

(***************************************************************************)
(* GET /api/posts after the page query: the like state of the viewer and   *)
(* the recent comments of the posts of the page; GET /api/posts/[postId].  *)
(***************************************************************************)
PostIdSet == 1..MaxPosts
NoLikes == [x \in PostIdSet \X Users |-> 0]
NoDetail == [status |-> 0, post_id |-> 0, isLiked |-> FALSE, comments |-> <<>>,
             recentComments |-> <<>>]

\* .order("created_at", { ascending: false }) on comments: every
\* arrangement of the rows S with created_at descending, built from the
\* newest row on
RECURSIVE NewestFirst(_, _)
NewestFirst(cmts, S) ==
  IF S = {} THEN {<<>>}
  ELSE UNION {{<<c>> \o r : r \in NewestFirst(cmts, S \ {c})}
                : c \in {x \in S : \A y \in S : cmts[x].created_at >= cmts[y].created_at}}

\* .from("comments").in("post_id", postIds).order("created_at", desc)
\* .limit(n): the first n rows of any arrangement with created_at descending
CommentsQuery(cmts, postIds, n) ==
  {Take(f, n) : f \in NewestFirst(cmts, {c \in DOMAIN cmts : cmts[c].post_id \in postIds})}

\* groupedComments of one post: the rows of the post in the order of the
\* query result, the first two kept; the sort that follows is stable and the
\* result already has created_at descending
GroupedComments(cmts, rows, p) ==
  Take(SelectSeq(rows, LAMBDA c : cmts[c].post_id = p), 2)

\* likesMap: empty when nobody is signed in or the users row is not found,
\* else the posts of the page with a likes row of the viewer
LikesMap(users, likes, who, postIds) ==
  IF who = None \/ who \notin users THEN {}
  ELSE {p \in postIds : likes[<<p, who>>] > 0}

\* the per-post part of the response built from one comments query result
Enriched(cmts, users, likes, who, data, rows) ==
  [i \in DOMAIN data |->
     [post_id |-> data[i],
      isLiked |-> data[i] \in LikesMap(users, likes, who, Range(data)),
      recentComments |-> GroupedComments(cmts, rows, data[i])]]

\* the handler answers the pending request, with the like state and the
\* recent comments of the page
ApiGetRich ==
  /\ apiResp = NoResponse
  /\ apiResp' \in GET(dbPosts, apiReq.limit, apiReq.offset, apiReq.userId)
  /\ IF apiResp'.status = 200 /\ Len(apiResp'.data) > 0
       THEN \E rows \in CommentsQuery(dbComments, Range(apiResp'.data),
                                      2 * Len(apiResp'.data)) :
              apiRich' = Enriched(dbComments, dbUsers, dbLikes, viewer, apiResp'.data, rows)
       ELSE apiRich' = <<>>
  /\ UNCHANGED <<dbPosts, apiReq, storeVars, srvVars, viewer, detailResp>>

\* the outcomes of the likes query of GET /api/posts/[postId]: the nested
\* users lookup gives no id when the viewer has no row, and the store
\* rejects the filter; otherwise the query gives an array of rows
DetailLikeData(users, likes, who, postId) ==
  IF who \notin users THEN [error |-> TRUE, rows |-> 0]
  ELSE [error |-> FALSE, rows |-> likes[<<postId, who>>]]

\* isLiked = !!likeData: an array is truthy whatever its length
DetailIsLiked(users, likes, who, postId) ==
  IF who = None THEN FALSE
  ELSE IF DetailLikeData(users, likes, who, postId).error THEN FALSE
  ELSE TRUE

\* GET /api/posts/[postId]
ApiGetDetail(postId) ==
  /\ detailResp = NoDetail
  /\ IF postId \notin DOMAIN dbPosts
       THEN detailResp' = [NoDetail EXCEPT !.status = 404, !.post_id = postId]
       ELSE \E rows \in NewestFirst(dbComments,
                                    {c \in DOMAIN dbComments : dbComments[c].post_id = postId}) :
              detailResp' = [status |-> 200, post_id |-> postId,
                             isLiked |-> DetailIsLiked(dbUsers, dbLikes, viewer, postId),
                             comments |-> rows, recentComments |-> Take(rows, 2)]
  /\ UNCHANGED <<dbPosts, apiReq, apiResp, storeVars, srvVars, viewer, apiRich>>

(***************************************************************************)
(* The mutating endpoints: /api/likes, /api/follows, /api/comments,        *)
(* POST /api/posts and DELETE /api/posts/[postId], on the tables of the    *)
(* schema and the uploads bucket.  A caller is the identity auth() gives   *)
(* (None when not signed in); the id of a users row is written as its      *)
(* identity.  The queries of a handler answer; the statements whose        *)
(* failure a handler treats (upload, blob removal, insert of the post row) *)
(* succeed or fail.  POST /api/likes and POST /api/follows are taken in    *)
(* two steps, the lookups and the insert, so that requests overlap; the    *)
(* other handlers change the store with one statement.                     *)
(***************************************************************************)
MaxContent == 500
NoFollows == [x \in Users \X Users |-> 0]
NoSrvResp ==
  [op |-> "none", who |-> None, status |-> 0, id |-> 0, target |-> None, len |-> 0, k |-> 0]
\* a response with the request it answers; k is the instance number of a
\* request answered after its insert, else 0
Resp(op, who, status, id, target, len) ==
  [op |-> op, who |-> who, status |-> status, id |-> id, target |-> target, len |-> len,
   k |-> 0]

\* a uuid sent in a request body: the user it denotes and whether it is
\* written as the store prints it (lower case) or otherwise (upper case);
\* the store compares uuid values, === compares the strings
Uuids == [user : Users, canonical : BOOLEAN]
NoUuid == [user |-> None, canonical |-> TRUE]

\* the content of a comment request: the characters that String.trim leaves
\* and the white space around them
Contents == [core : {0, 1, MaxContent, MaxContent + 1}, pad : {0, 1}]
ContentLength(content) == content.core + content.pad
Trim(content) == [core |-> content.core, pad |-> 0]

\* an endpoint that takes every caller as signed in
UnauthorizedNever(who) == FALSE

\* const { userId } = await auth(); if (!userId)
Unauthorized(who) == who = None

ServerIdle ==
  /\ dbFollows = NoFollows
  /\ dbBlobs = {}
  /\ srvResp = NoSrvResp
  /\ srvPending = {}
  /\ srvNext = [post |-> 1, comment |-> 1]
  /\ srvBudget = 0

\* likes that stay when their post goes
CascadeLikesNone(likes, p) == likes

\* ON DELETE CASCADE of posts on likes and comments
CascadeLikes(likes, p) == [x \in DOMAIN likes |-> IF x[1] = p THEN 0 ELSE likes[x]]
CascadeComments(cmts, p) ==
  [c \in {d \in DOMAIN cmts : cmts[d].post_id # p} |-> cmts[c]]

\* an insert into likes that no constraint rejects for an existing row
InsertLikeNoUnique(rows, users, likes, p, u) ==
  IF p \notin DOMAIN rows \/ u \notin users THEN [code |-> "23503", likes |-> likes]
  ELSE [code |-> "none", likes |-> [likes EXCEPT ![<<p, u>>] = @ + 1]]

\* INSERT INTO likes (post_id, user_id): the foreign keys, then
\* UNIQUE(post_id, user_id)
InsertLike(rows, users, likes, p, u) ==
  IF p \notin DOMAIN rows \/ u \notin users THEN [code |-> "23503", likes |-> likes]
  ELSE IF likes[<<p, u>>] > 0 THEN [code |-> "23505", likes |-> likes]
  ELSE [code |-> "none", likes |-> [likes EXCEPT ![<<p, u>>] = @ + 1]]

\* INSERT INTO follows (follower_id, following_id): the foreign keys,
\* CHECK (follower_id != following_id), then UNIQUE(follower_id, following_id)
InsertFollow(users, follows, a, b) ==
  IF a \notin users \/ b \notin users THEN [code |-> "23503", follows |-> follows]
  ELSE IF a = b THEN [code |-> "23514", follows |-> follows]
  ELSE IF follows[<<a, b>>] > 0 THEN [code |-> "23505", follows |-> follows]
  ELSE [code |-> "none", follows |-> [follows EXCEPT ![<<a, b>>] = @ + 1]]

\* the instance number of a request that joins the pending ones
Instance(op, who, id, target) ==
  CHOOSE k \in 1..(Cardinality(srvPending) + 1) :
    [op |-> op, who |-> who, id |-> id, target |-> target, k |-> k] \notin srvPending

\* POST /api/likes up to the insert
LikesPOST(who, p) ==
  /\ srvBudget > 0
  /\ srvBudget' = srvBudget - 1
  /\ LET early(st) == /\ srvResp' = Resp("POST /likes", who, st, p, None, 0)
                      /\ UNCHANGED srvPending
     IN IF Unauthorized(who) THEN early(401)
        ELSE IF p = 0 THEN early(400)
        ELSE IF who \notin dbUsers THEN early(404)
        ELSE IF p \notin DOMAIN dbPosts THEN early(404)
        ELSE /\ srvPending' = srvPending \cup
                  {[op |-> "POST /likes", who |-> who, id |-> p, target |-> None,
                    k |-> Instance("POST /likes", who, p, None)]}
             /\ UNCHANGED srvResp
  /\ UNCHANGED <<dbPosts, dbUsers, dbComments, dbLikes, dbFollows, dbBlobs, srvNext>>

\* POST /api/likes: the insert and the response
LikesPOSTInsert(r) ==
  /\ r \in srvPending /\ r.op = "POST /likes"
  /\ srvPending' = srvPending \ {r}
  /\ LET out == InsertLike(dbPosts, dbUsers, dbLikes, r.id, r.who)
     IN /\ dbLikes' = out.likes
        /\ srvResp' = [Resp(r.op, r.who,
                            IF out.code = "none" THEN 200
                            ELSE IF out.code = "23505" THEN 409 ELSE 500,
                            r.id, None, 0) EXCEPT !.k = r.k]
  /\ UNCHANGED <<dbPosts, dbUsers, dbComments, dbFollows, dbBlobs, srvNext, srvBudget>>

\* an unlike that answers success whether or not a row was deleted
LikesDELETEIdempotent(who, p) ==
  /\ srvBudget > 0
  /\ srvBudget' = srvBudget - 1
  /\ LET answer(st) == srvResp' = Resp("DELETE /likes", who, st, p, None, 0)
     IN IF Unauthorized(who) THEN answer(401) /\ UNCHANGED dbLikes
        ELSE IF p = 0 THEN answer(400) /\ UNCHANGED dbLikes
        ELSE IF who \notin dbUsers THEN answer(404) /\ UNCHANGED dbLikes
        ELSE IF p \notin PostIdSet THEN answer(404) /\ UNCHANGED dbLikes
        ELSE /\ dbLikes' = [dbLikes EXCEPT ![<<p, who>>] = 0]
             /\ answer(200)
  /\ UNCHANGED <<dbPosts, dbUsers, dbComments, dbFollows, dbBlobs, srvNext, srvPending>>

\* DELETE /api/likes
LikesDELETE(who, p) ==
  /\ srvBudget > 0
  /\ srvBudget' = srvBudget - 1
  /\ LET answer(st) == srvResp' = Resp("DELETE /likes", who, st, p, None, 0)
     IN IF Unauthorized(who) THEN answer(401) /\ UNCHANGED dbLikes
        ELSE IF p = 0 THEN answer(400) /\ UNCHANGED dbLikes
        ELSE IF who \notin dbUsers THEN answer(404) /\ UNCHANGED dbLikes
        ELSE IF p \notin PostIdSet \/ dbLikes[<<p, who>>] = 0
          THEN answer(404) /\ UNCHANGED dbLikes
        ELSE /\ dbLikes' = [dbLikes EXCEPT ![<<p, who>>] = 0]
             /\ answer(200)
  /\ UNCHANGED <<dbPosts, dbUsers, dbComments, dbFollows, dbBlobs, srvNext, srvPending>>

\* a self-follow test that compares the users denoted
IsSelfFollowByValue(id, following_id) == id = following_id.user

\* userData.id === following_id: the strings are the same
IsSelfFollow(id, following_id) == id = following_id.user /\ following_id.canonical

\* POST /api/follows up to the insert; following_id is a uuid or absent
FollowsPOST(who, following_id) ==
  /\ srvBudget > 0
  /\ srvBudget' = srvBudget - 1
  /\ LET early(st) == /\ srvResp' = Resp("POST /follows", who, st, 0,
                                         following_id.user, 0)
                      /\ UNCHANGED srvPending
     IN IF Unauthorized(who) THEN early(401)
        ELSE IF following_id = NoUuid THEN early(400)
        ELSE IF who \notin dbUsers THEN early(404)
        ELSE IF following_id.user \notin dbUsers THEN early(404)
        ELSE IF IsSelfFollow(who, following_id) THEN early(400)
        ELSE /\ srvPending' = srvPending \cup
                  {[op |-> "POST /follows", who |-> who, id |-> 0,
                    target |-> following_id.user,
                    k |-> Instance("POST /follows", who, 0, following_id.user)]}
             /\ UNCHANGED srvResp
  /\ UNCHANGED <<dbPosts, dbUsers, dbComments, dbLikes, dbFollows, dbBlobs, srvNext>>

\* POST /api/follows: the insert and the response
FollowsPOSTInsert(r) ==
  /\ r \in srvPending /\ r.op = "POST /follows"
  /\ srvPending' = srvPending \ {r}
  /\ LET out == InsertFollow(dbUsers, dbFollows, r.who, r.target)
     IN /\ dbFollows' = out.follows
        /\ srvResp' = [Resp(r.op, r.who,
                            IF out.code = "none" THEN 200
                            ELSE IF out.code = "23505" THEN 409 ELSE 500,
                            0, r.target, 0) EXCEPT !.k = r.k]
  /\ UNCHANGED <<dbPosts, dbUsers, dbComments, dbLikes, dbBlobs, srvNext, srvBudget>>

\* DELETE /api/follows
FollowsDELETE(who, following_id) ==
  /\ srvBudget > 0
  /\ srvBudget' = srvBudget - 1
  /\ LET answer(st) == srvResp' = Resp("DELETE /follows", who, st, 0,
                                       following_id.user, 0)
     IN IF Unauthorized(who) THEN answer(401) /\ UNCHANGED dbFollows
        ELSE IF following_id = NoUuid THEN answer(400) /\ UNCHANGED dbFollows
        ELSE IF who \notin dbUsers THEN answer(404) /\ UNCHANGED dbFollows
        ELSE IF dbFollows[<<who, following_id.user>>] = 0
          THEN answer(404) /\ UNCHANGED dbFollows
        ELSE /\ dbFollows' = [dbFollows EXCEPT ![<<who, following_id.user>>] = 0]
             /\ answer(200)
  /\ UNCHANGED <<dbPosts, dbUsers, dbComments, dbLikes, dbBlobs, srvNext, srvPending>>

\* a length test on the content as it was sent
TooLongAsSent(content) == ContentLength(content) > MaxContent

\* content.trim().length > 500
TooLong(content) == ContentLength(Trim(content)) > MaxContent

\* POST /api/comments; the insert fails on the foreign key when the post
\* does not exist
CommentsPOST(who, p, content) ==
  /\ srvBudget > 0
  /\ srvBudget' = srvBudget - 1
  /\ LET answer(st) == srvResp' = Resp("POST /comments", who, st, p, None,
                                       ContentLength(content))
         refuse(st) == answer(st) /\ UNCHANGED <<dbComments, srvNext>>
     IN IF Unauthorized(who) THEN refuse(401)
        ELSE IF p = 0 \/ ContentLength(content) = 0 \/ ContentLength(Trim(content)) = 0
          THEN refuse(400)
        ELSE IF TooLong(content) THEN refuse(400)
        ELSE IF who \notin dbUsers THEN refuse(404)
        ELSE IF p \notin DOMAIN dbPosts THEN refuse(500)
        ELSE /\ srvNext.comment <= MaxCmts
             /\ dbComments' =
                  [c \in DOMAIN dbComments \cup {srvNext.comment} |->
                     IF c = srvNext.comment
                       THEN [post_id |-> p, user_id |-> who, created_at |-> MaxCTime,
                             len |-> ContentLength(Trim(content))]
                       ELSE dbComments[c]]
             /\ srvNext' = [srvNext EXCEPT !.comment = @ + 1]
             /\ answer(200)
  /\ UNCHANGED <<dbPosts, dbUsers, dbLikes, dbFollows, dbBlobs, srvPending>>

\* a comparison that lets every user with a row delete
IsOwnerAnyone(owner, id) == TRUE

\* postData.user_id !== userData.id and commentData.user_id !== userData.id
\* negated: both ids come from the store
IsOwner(owner, id) == owner = id

\* DELETE /api/comments
CommentsDELETE(who, c) ==
  /\ srvBudget > 0
  /\ srvBudget' = srvBudget - 1
  /\ LET answer(st) == srvResp' = Resp("DELETE /comments", who, st, c, None, 0)
     IN IF Unauthorized(who) THEN answer(401) /\ UNCHANGED dbComments
        ELSE IF c = 0 THEN answer(400) /\ UNCHANGED dbComments
        ELSE IF who \notin dbUsers THEN answer(404) /\ UNCHANGED dbComments
        ELSE IF c \notin DOMAIN dbComments THEN answer(404) /\ UNCHANGED dbComments
        ELSE IF ~IsOwner(dbComments[c].user_id, who) THEN answer(403) /\ UNCHANGED dbComments
        ELSE /\ dbComments' = [d \in DOMAIN dbComments \ {c} |-> dbComments[d]]
             /\ answer(200)
  /\ UNCHANGED <<dbPosts, dbUsers, dbLikes, dbFollows, dbBlobs, srvNext, srvPending>>

\* what a request to POST /api/posts carries: the file (absent, not an
\* image, above 5MB or accepted) and the userId field of the form
Files == {"none", "notImage", "tooBig", "image"}

\* created_at ... DEFAULT now(): later than the created_at of every row
Now(rows) ==
  LET S == {rows[q].created_at : q \in DOMAIN rows} \cup {0}
  IN 1 + (CHOOSE m \in S : \A x \in S : x <= m)

\* POST /api/posts: the blob is named after the post it is uploaded for
PostsPOST(who, file, formUserId) ==
  /\ srvBudget > 0
  /\ srvBudget' = srvBudget - 1
  /\ LET answer(st) == srvResp' = Resp("POST /posts", who, st, srvNext.post, None, 0)
         refuse(st) == answer(st) /\ UNCHANGED <<dbPosts, dbBlobs, srvNext>>
     IN IF Unauthorized(who) THEN refuse(401)
        ELSE IF file # "image" THEN refuse(400)
        ELSE IF formUserId # who THEN refuse(403)
        ELSE IF who \notin dbUsers THEN refuse(404)
        ELSE /\ srvNext.post <= MaxPosts
             /\ srvNext' = [srvNext EXCEPT !.post = @ + 1]
             /\ \/ \* the upload fails
                   /\ answer(500)
                   /\ UNCHANGED <<dbPosts, dbBlobs>>
                \/ \* the insert fails and the uploaded blob is removed, or
                   \* its removal fails
                   /\ answer(500)
                   /\ dbBlobs' \in {dbBlobs, dbBlobs \cup {srvNext.post}}
                   /\ UNCHANGED dbPosts
                \/ /\ answer(200)
                   /\ dbBlobs' = dbBlobs \cup {srvNext.post}
                   /\ dbPosts' = [q \in DOMAIN dbPosts \cup {srvNext.post} |->
                                    IF q = srvNext.post
                                      THEN [user_id |-> who, created_at |-> Now(dbPosts)]
                                      ELSE dbPosts[q]]
  /\ UNCHANGED <<dbUsers, dbComments, dbLikes, dbFollows, srvPending>>

\* DELETE /api/posts/[postId]: the blob is removed first, and the row is
\* deleted whether or not the removal succeeded; the delete of the row can
\* fail
PostsDELETE(who, p) ==
  /\ srvBudget > 0
  /\ srvBudget' = srvBudget - 1
  /\ LET answer(st) == srvResp' = Resp("DELETE /posts", who, st, p, None, 0)
         refuse(st) == answer(st) /\ UNCHANGED <<dbPosts, dbComments, dbLikes, dbBlobs>>
     IN IF Unauthorized(who) THEN refuse(401)
        ELSE IF who \notin dbUsers THEN refuse(404)
        ELSE IF p \notin DOMAIN dbPosts THEN refuse(404)
        ELSE IF ~IsOwner(dbPosts[p].user_id, who) THEN refuse(403)
        ELSE /\ dbBlobs' \in {dbBlobs, dbBlobs \ {p}}
             /\ \/ /\ answer(500)
                   /\ UNCHANGED <<dbPosts, dbComments, dbLikes>>
                \/ /\ answer(200)
                   /\ dbPosts' = [q \in DOMAIN dbPosts \ {p} |-> dbPosts[q]]
                   /\ dbComments' = CascadeComments(dbComments, p)
                   /\ dbLikes' = CascadeLikes(dbLikes, p)
  /\ UNCHANGED <<dbUsers, dbFollows, srvNext, srvPending>>

Callers == Users \cup {None}

NextServer ==
  \/ \E who \in Callers : \E p \in {0} \cup PostIdSet : LikesPOST(who, p)
  \/ \E r \in srvPending : LikesPOSTInsert(r)
  \/ \E who \in Callers : \E p \in {0} \cup PostIdSet : LikesDELETE(who, p)
  \/ \E who \in Callers : \E f \in Uuids \cup {NoUuid} : FollowsPOST(who, f)
  \/ \E r \in srvPending : FollowsPOSTInsert(r)
  \/ \E who \in Callers : \E f \in Uuids \cup {NoUuid} : FollowsDELETE(who, f)
  \/ \E who \in Callers : \E p \in {0} \cup PostIdSet : \E content \in Contents :
       CommentsPOST(who, p, content)
  \/ \E who \in Callers : \E c \in 0..MaxCmts : CommentsDELETE(who, c)
  \/ \E who \in Callers : \E file \in Files : \E formUserId \in Users :
       PostsPOST(who, file, formUserId)
  \/ \E who \in Callers : \E p \in PostIdSet : PostsDELETE(who, p)

(***************************************************************************)
(* A client paging through the feed: fetchPosts(currentOffset, append) of  *)
(* PostFeed with page size pgK.                                            *)
(***************************************************************************)
PagerFetch ==
  /\ pgHasMore
  /\ \E r \in GET(dbPosts, NumToString(pgK), NumToString(pgOffset), None) :
       IF r.status # 200
         THEN /\ pgHasMore' = FALSE
              /\ UNCHANGED <<pgPosts, pgOffset>>
         ELSE /\ pgPosts' = pgPosts \o r.data
              /\ pgHasMore' = r.hasMore
              /\ pgOffset' = pgOffset + Len(r.data)
  /\ pgPages' = pgPages + 1
  /\ UNCHANGED <<pgK, pgWhole, scrollVars>>

\* the same range requested as a single page
PagerWhole ==
  /\ ~pgHasMore
  /\ ~pgWhole.fetched
  /\ \E r \in GET(dbPosts, NumToString(pgPages * pgK), NumToString(0), None) :
       pgWhole' = [fetched |-> TRUE, data |-> r.data]
  /\ UNCHANGED <<pgK, pgOffset, pgPosts, pgHasMore, pgPages, scrollVars>>

(***************************************************************************)
(* Client side.  A request that is outstanding is answered by the server   *)
(* with success or with a failure (network error or non-2xx); which one is *)
(* not decided by this session alone, since the rows it touches can be     *)
(* changed from another session of the same user.                          *)
(***************************************************************************)
FeedIds == 1..MaxFeed
Methods == {"POST", "DELETE"}

Event(k, p, t) == [kind |-> k, post |-> p, toast |-> t]
NoEvent == Event("init", 0, FALSE)

Loaded(ps) == {ps[i].post_id : i \in DOMAIN ps}
PostOf(ps, pid) == ps[CHOOSE i \in DOMAIN ps : ps[i].post_id = pid]

\* the sequence s without its i-th element
Without(s, i) == SubSeq(s, 1, i - 1) \o SubSeq(s, i + 1, Len(s))
Unmounted == [mounted |-> FALSE, isLiked |-> FALSE, likesCount |-> 0]

\* LikeButton props sync effect: runs after a render in which the isLiked
\* or likesCount prop differs from the previous render
SyncProps(button, oldCard, newCard) ==
  IF oldCard.isLiked # newCard.isLiked \/ oldCard.likesCount # newCard.likesCount
    THEN [button EXCEPT !.isLiked = newCard.isLiked, !.likesCount = newCard.likesCount]
    ELSE button

\* handleLikeToggle without its isLoading guard
handleLikeToggleUnguarded(p) ==
  /\ card[p].mounted
  /\ budget > 0
  /\ budget' = budget - 1
  /\ LET newIsLiked == ~lb[p].isLiked
         newLikesCount == IF newIsLiked THEN lb[p].likesCount + 1
                          ELSE lb[p].likesCount - 1
     IN /\ lb' = [lb EXCEPT ![p] = [isLiked |-> newIsLiked,
                                    likesCount |-> newLikesCount,
                                    isLoading |-> TRUE]]
        /\ lbReq' = [lbReq EXCEPT ![p] =
                       Append(@, [newIsLiked |-> newIsLiked,
                                  newLikesCount |-> newLikesCount,
                                  initialLikesCount |-> card[p].likesCount])]
        /\ hist' = [hist EXCEPT ![p].likes = @ + (IF newIsLiked THEN 1 ELSE 0),
                                ![p].unlikes = @ + (IF newIsLiked THEN 0 ELSE 1),
                                ![p].snapIsLiked = lb[p].isLiked,
                                ![p].snapLikesCount = lb[p].likesCount,
                                ![p].snapCard = card[p]]
        /\ evt' = Event("likeToggle", p, FALSE)
  /\ UNCHANGED <<posts, card, tapReqs>>

\* LikeButton.handleLikeToggle up to the fetch
handleLikeToggle(p) ==
  /\ card[p].mounted
  /\ budget > 0
  /\ budget' = budget - 1
  /\ IF lb[p].isLoading
       THEN /\ evt' = Event("likeDropped", p, FALSE)
            /\ hist' = [hist EXCEPT ![p].dropped = TRUE]
            /\ UNCHANGED <<lb, lbReq>>
       ELSE LET newIsLiked == ~lb[p].isLiked
                newLikesCount == IF newIsLiked THEN lb[p].likesCount + 1
                                 ELSE lb[p].likesCount - 1
            IN /\ lb' = [lb EXCEPT ![p] = [isLiked |-> newIsLiked,
                                           likesCount |-> newLikesCount,
                                           isLoading |-> TRUE]]
               /\ lbReq' = [lbReq EXCEPT ![p] =
                              Append(@, [newIsLiked |-> newIsLiked,
                                         newLikesCount |-> newLikesCount,
                                         initialLikesCount |-> card[p].likesCount])]
               /\ hist' = [hist EXCEPT ![p].likes = @ + (IF newIsLiked THEN 1 ELSE 0),
                                       ![p].unlikes = @ + (IF newIsLiked THEN 0 ELSE 1),
                                       ![p].snapIsLiked = lb[p].isLiked,
                                       ![p].snapLikesCount = lb[p].likesCount,
                                       ![p].snapCard = card[p]]
               /\ evt' = Event("likeToggle", p, FALSE)
  /\ UNCHANGED <<posts, card, tapReqs>>

\* handleLikeChange that takes the flag and leaves the count
handleLikeChangeFlagOnly(c, newLikesCount, newIsLiked) ==
  IF c.mounted THEN [c EXCEPT !.isLiked = newIsLiked] ELSE c

\* PostCard.handleLikeChange, called by the LikeButton on success
handleLikeChange(c, newLikesCount, newIsLiked) ==
  IF c.mounted THEN [c EXCEPT !.likesCount = newLikesCount, !.isLiked = newIsLiked]
  ELSE c

\* LikeButton.handleLikeToggle after the fetch: response.ok
LikeRespOk(p, i) ==
  /\ i \in DOMAIN lbReq[p]
  /\ LET req == lbReq[p][i]
         newCard == handleLikeChange(card[p], req.newLikesCount, req.newIsLiked)
     IN /\ card' = [card EXCEPT ![p] = newCard]
        /\ lb' = [lb EXCEPT ![p] =
                    [SyncProps(lb[p], card[p], newCard) EXCEPT !.isLoading = FALSE]]
  /\ lbReq' = [lbReq EXCEPT ![p] = Without(@, i)]
  /\ evt' = Event("likeOk", p, FALSE)
  /\ UNCHANGED <<posts, tapReqs, hist, budget>>

\* a rollback that restores the flag and leaves the count
LikeRollbackFlagOnly(button, req) ==
  [button EXCEPT !.isLiked = ~req.newIsLiked]

\* the rollback of handleLikeToggle
LikeRollback(button, req) ==
  [button EXCEPT !.isLiked = ~req.newIsLiked, !.likesCount = req.initialLikesCount]

\* LikeButton.handleLikeToggle after the fetch: network error or !response.ok
LikeRespFail(p, i) ==
  /\ i \in DOMAIN lbReq[p]
  /\ lb' = [lb EXCEPT ![p] =
              IF card[p].mounted
                THEN [LikeRollback(lb[p], lbReq[p][i]) EXCEPT !.isLoading = FALSE]
                ELSE lb[p]]
  /\ lbReq' = [lbReq EXCEPT ![p] = Without(@, i)]
  /\ hist' = [hist EXCEPT ![p].failed = TRUE]
  /\ evt' = Event("likeFail", p, TRUE)
  /\ UNCHANGED <<posts, card, tapReqs, budget>>

\* PostCard.handleImageClick on the second tap of a double tap
handleImageClick(p) ==
  /\ card[p].mounted
  /\ budget > 0
  /\ budget' = budget - 1
  /\ LET newIsLiked == ~card[p].isLiked
         newLikesCount == IF newIsLiked THEN card[p].likesCount + 1
                          ELSE card[p].likesCount - 1
         newCard == [card[p] EXCEPT !.isLiked = newIsLiked, !.likesCount = newLikesCount]
         method == IF newIsLiked THEN "POST" ELSE "DELETE"
     IN /\ card' = [card EXCEPT ![p] = newCard]
        /\ lb' = [lb EXCEPT ![p] = SyncProps(lb[p], card[p], newCard)]
        /\ tapReqs' = [tapReqs EXCEPT ![p][method] = @ + 1]
  /\ hist' = [hist EXCEPT ![p].tapped = TRUE]
  /\ evt' = Event("doubleTap", p, FALSE)
  /\ UNCHANGED <<posts, lbReq>>

\* PostFeed.handleLike / handleUnlike after the fetch: response.ok
handleLike(ps, postId) ==
  [i \in DOMAIN ps |-> LET post == ps[i] IN
     IF post.post_id = postId
       THEN [post EXCEPT !.isLiked = TRUE,
                         !.likes_count = post.likes_count + 1]
       ELSE post]
handleUnlike(ps, postId) ==
  [i \in DOMAIN ps |-> LET post == ps[i] IN
     IF post.post_id = postId
       THEN [post EXCEPT !.isLiked = FALSE,
                         !.likes_count = post.likes_count - 1]
       ELSE post]

TapRespOk(p, m) ==
  /\ tapReqs[p][m] > 0
  /\ tapReqs' = [tapReqs EXCEPT ![p][m] = @ - 1]
  /\ posts' = IF m = "POST" THEN handleLike(posts, p) ELSE handleUnlike(posts, p)
  /\ evt' = Event("tapOk", p, FALSE)
  /\ UNCHANGED <<card, lb, lbReq, hist, budget>>

\* PostFeed.handleLike / handleUnlike after the fetch: failure, toast only
TapRespFail(p, m) ==
  /\ tapReqs[p][m] > 0
  /\ tapReqs' = [tapReqs EXCEPT ![p][m] = @ - 1]
  /\ evt' = Event("tapFail", p, TRUE)
  /\ UNCHANGED <<posts, card, lb, lbReq, hist, budget>>

NextLike ==
  \/ \E p \in FeedIds : handleLikeToggle(p)
  \/ \E p \in FeedIds : \E i \in DOMAIN lbReq[p] : LikeRespOk(p, i)
  \/ \E p \in FeedIds : \E i \in DOMAIN lbReq[p] : LikeRespFail(p, i)
  \/ \E p \in FeedIds : handleImageClick(p)
  \/ \E p \in FeedIds, m \in Methods : TapRespOk(p, m)
  \/ \E p \in FeedIds, m \in Methods : TapRespFail(p, m)

(***************************************************************************)
(* Comments written and deleted from a feed card                           *)
(***************************************************************************)
\* the CommentList of a card is rendered only while comments_count > 0;
\* when it is not rendered its deletingCommentId state is gone
CommentListShown(ps, p) == p \in Loaded(ps) /\ PostOf(ps, p).comments_count > 0
Rendered(ps, deleting) ==
  [p \in FeedIds |-> IF CommentListShown(ps, p) THEN deleting[p] ELSE 0]

\* PostFeed.handleComment: the optimistic update
CommentOptimistic(ps, postId) ==
  [i \in DOMAIN ps |-> LET q == ps[i] IN
     IF q.post_id = postId
       THEN [q EXCEPT !.comments_count = q.comments_count + 1]
       ELSE q]
\* a rollback that leaves the optimistic count
CommentRollbackNone(ps, postId) == ps

\* PostFeed.handleComment: the rollback
CommentRollback(ps, postId) ==
  [i \in DOMAIN ps |-> LET q == ps[i] IN
     IF q.post_id = postId
       THEN [q EXCEPT !.comments_count = Max(0, q.comments_count - 1)]
       ELSE q]
\* PostFeed.handleComment: the created comment is put in front
CommentCreated(ps, postId, newComment) ==
  [i \in DOMAIN ps |-> LET q == ps[i] IN
     IF q.post_id = postId
       THEN [q EXCEPT !.recentComments =
               Take(<<newComment>> \o q.recentComments, 2)]
       ELSE q]

\* CommentForm.handleSubmit, PostCard.handleComment and PostFeed.handleComment
\* up to the fetch
handleSubmit(p) ==
  /\ card[p].mounted
  /\ budget > 0
  /\ budget' = budget - 1
  /\ IF isSubmitting[p]
       THEN /\ evt' = Event("commentDropped", p, FALSE)
            /\ UNCHANGED <<posts, isSubmitting, cmtReqs, deletingCommentId>>
       ELSE /\ isSubmitting' = [isSubmitting EXCEPT ![p] = TRUE]
            /\ posts' = CommentOptimistic(posts, p)
            /\ cmtReqs' = [cmtReqs EXCEPT ![p] = @ + 1]
            /\ deletingCommentId' = Rendered(posts', deletingCommentId)
            /\ evt' = Event("commentSubmit", p, FALSE)
  /\ UNCHANGED <<delReqs, nextId>>

\* PostFeed.handleComment after the fetch: response.ok
CommentRespOk(p) ==
  /\ cmtReqs[p] > 0
  /\ cmtReqs' = [cmtReqs EXCEPT ![p] = @ - 1]
  /\ posts' = CommentCreated(posts, p, nextId)
  /\ nextId' = nextId + 1
  /\ isSubmitting' = [isSubmitting EXCEPT ![p] = FALSE]
  /\ evt' = Event("commentOk", p, FALSE)
  /\ UNCHANGED <<deletingCommentId, delReqs, budget>>

\* PostFeed.handleComment after the fetch: network error or !response.ok
CommentRespFail(p) ==
  /\ cmtReqs[p] > 0
  /\ cmtReqs' = [cmtReqs EXCEPT ![p] = @ - 1]
  /\ posts' = CommentRollback(posts, p)
  /\ isSubmitting' = [isSubmitting EXCEPT ![p] = FALSE]
  /\ deletingCommentId' = Rendered(posts', deletingCommentId)
  /\ evt' = Event("commentFail", p, TRUE)
  /\ UNCHANGED <<delReqs, nextId, budget>>

\* PostFeed.handleCommentDelete: the optimistic update
CommentDeleteOptimistic(ps, commentId) ==
  [i \in DOMAIN ps |-> LET q == ps[i] IN
     IF commentId \in Range(q.recentComments)
       THEN [q EXCEPT !.comments_count = Max(0, q.comments_count - 1),
                      !.recentComments =
                         SelectSeq(q.recentComments,
                                   LAMBDA c : c # commentId)]
       ELSE q]
\* PostFeed.handleCommentDelete: the rollback
CommentDeleteRollback(ps) ==
  [i \in DOMAIN ps |-> LET q == ps[i] IN
     IF Len(q.recentComments) < 2
       THEN [q EXCEPT !.comments_count = q.comments_count + 1]
       ELSE q]

\* CommentList.handleDeleteComment and PostFeed.handleCommentDelete up to the
\* fetch; the request remembers the feed as it was before the deletion
handleDeleteComment(p, c) ==
  /\ card[p].mounted
  /\ CommentListShown(posts, p)
  /\ c \in Range(Take(PostOf(posts, p).recentComments, 2))
  /\ budget > 0
  /\ budget' = budget - 1
  /\ IF deletingCommentId[p] # 0
       THEN /\ evt' = Event("commentDelDropped", p, FALSE)
            /\ UNCHANGED <<posts, deletingCommentId, delReqs>>
       ELSE /\ posts' = CommentDeleteOptimistic(posts, c)
            /\ deletingCommentId' = Rendered(posts', [deletingCommentId EXCEPT ![p] = c])
            /\ delReqs' = delReqs \cup {[id |-> c, post |-> p, before |-> posts]}
            /\ evt' = Event("commentDelete", p, FALSE)
  /\ UNCHANGED <<isSubmitting, cmtReqs, nextId>>

\* setDeletingCommentId(null) of the CommentList that asked for the deletion
DoneDeleting(deleting, r) ==
  [deleting EXCEPT ![r.post] = IF @ = r.id THEN 0 ELSE @]

\* PostFeed.handleCommentDelete after the fetch: response.ok
CommentDelRespOk(r) ==
  /\ r \in delReqs
  /\ delReqs' = delReqs \ {r}
  /\ deletingCommentId' = DoneDeleting(deletingCommentId, r)
  /\ evt' = Event("commentDelOk", r.post, FALSE)
  /\ UNCHANGED <<posts, isSubmitting, cmtReqs, nextId, budget>>

\* PostFeed.handleCommentDelete after the fetch: network error or !response.ok
CommentDelRespFail(r) ==
  /\ r \in delReqs
  /\ delReqs' = delReqs \ {r}
  /\ posts' = CommentDeleteRollback(posts)
  /\ deletingCommentId' = Rendered(posts', DoneDeleting(deletingCommentId, r))
  /\ evt' = Event("commentDelFail", r.post, TRUE)
  /\ UNCHANGED <<isSubmitting, cmtReqs, nextId, budget>>

NextComments ==
  \/ \E p \in FeedIds : handleSubmit(p)
  \/ \E p \in FeedIds : CommentRespOk(p)
  \/ \E p \in FeedIds : CommentRespFail(p)
  \/ \E p \in FeedIds : \E c \in 1..nextId : handleDeleteComment(p, c)
  \/ \E r \in delReqs : CommentDelRespOk(r)
  \/ \E r \in delReqs : CommentDelRespFail(r)

(***************************************************************************)
(* PostMenu and PostFeed.handleDelete.  The menu is rendered for the owner *)
(* of a post; the loaded posts are the viewer's own.                       *)
(***************************************************************************)
\* a handleDeleteConfirm that removes the post from the feed before the fetch
handleDeleteConfirmOptimistic(p) ==
  /\ card[p].mounted
  /\ budget > 0
  /\ budget' = budget - 1
  /\ IF isDeleting[p]
       THEN /\ evt' = Event("deleteDropped", p, FALSE)
            /\ UNCHANGED <<posts, isDeleting, postDelReqs>>
       ELSE /\ isDeleting' = [isDeleting EXCEPT ![p] = TRUE]
            /\ posts' = SelectSeq(posts, LAMBDA post : post.post_id # p)
            /\ postDelReqs' = postDelReqs \cup {[post |-> p, selectedPostId |-> selectedPostId]}
            /\ evt' = Event("deleteConfirm", p, FALSE)
  /\ UNCHANGED <<likeVars, cmtVars, modalVars>>

\* PostMenu.handleDeleteConfirm up to the fetch; the onDelete it will call
\* is the PostFeed.handleDelete of this render, which closes over
\* selectedPostId
handleDeleteConfirm(p) ==
  /\ card[p].mounted
  /\ budget > 0
  /\ budget' = budget - 1
  /\ IF isDeleting[p]
       THEN /\ evt' = Event("deleteDropped", p, FALSE)
            /\ UNCHANGED <<isDeleting, postDelReqs>>
       ELSE /\ isDeleting' = [isDeleting EXCEPT ![p] = TRUE]
            /\ postDelReqs' = postDelReqs \cup {[post |-> p, selectedPostId |-> selectedPostId]}
            /\ evt' = Event("deleteConfirm", p, FALSE)
  /\ UNCHANGED <<posts, likeVars, cmtVars, modalVars>>

\* PostFeed.handleDelete: posts.filter
handleDelete(ps, postId) == SelectSeq(ps, LAMBDA post : post.post_id # postId)

\* handleDeleteConfirm after the fetch: response.ok, onDelete(postId); the
\* components of the removed card unmount
PostDelRespOk(r) ==
  /\ r \in postDelReqs
  /\ postDelReqs' = postDelReqs \ {r}
  /\ posts' = handleDelete(posts, r.post)
  /\ IF r.selectedPostId = r.post
       THEN selectedPostId' = 0 /\ selectedPostIndex' = -1
       ELSE UNCHANGED <<selectedPostId, selectedPostIndex>>
  /\ card' = [card EXCEPT ![r.post] = Unmounted]
  /\ isSubmitting' = [isSubmitting EXCEPT ![r.post] = FALSE]
  /\ deletingCommentId' = [deletingCommentId EXCEPT ![r.post] = 0]
  /\ isDeleting' = [isDeleting EXCEPT ![r.post] = FALSE]
  /\ modal' = IF selectedPostId' = 0 THEN [modal EXCEPT !.loaded = FALSE, !.comments = <<>>]
              ELSE modal
  /\ modalForm' = IF selectedPostId' = 0 THEN [isSubmitting |-> FALSE, deletingCommentId |-> 0]
                  ELSE modalForm
  /\ evt' = Event("deleteOk", r.post, FALSE)
  /\ UNCHANGED <<lb, lbReq, tapReqs, hist, cmtReqs, delReqs, nextId, detailReqs,
                 modalCmtReqs, modalDelReqs, budget>>

\* handleDeleteConfirm after the fetch: failure, alert
PostDelRespFail(r) ==
  /\ r \in postDelReqs
  /\ postDelReqs' = postDelReqs \ {r}
  /\ isDeleting' = [isDeleting EXCEPT ![r.post] = FALSE]
  /\ evt' = Event("deleteFail", r.post, TRUE)
  /\ UNCHANGED <<posts, likeVars, cmtVars, modalVars, budget>>

NextMenu ==
  \/ \E p \in FeedIds : handleDeleteConfirm(p)
  \/ \E r \in postDelReqs : PostDelRespOk(r)
  \/ \E r \in postDelReqs : PostDelRespFail(r)

(***************************************************************************)
(* The post detail view: PostFeed.handleShowDetail / handleCloseModal and  *)
(* PostModal.  The rows of the server are not modelled: a detail response  *)
(* lists the comments the feed shows for the post and carries a            *)
(* comments_count that is not below their number.                          *)
(***************************************************************************)
NoModal == [loaded |-> FALSE, post_id |-> 0, comments_count |-> 0, comments |-> <<>>]
NoModalForm == [isSubmitting |-> FALSE, deletingCommentId |-> 0]

\* posts.findIndex(post => post.post_id === postId), 0-based, -1 if absent
FindIndex(ps, postId) ==
  IF postId \in Loaded(ps) THEN (CHOOSE i \in DOMAIN ps : ps[i].post_id = postId) - 1
  ELSE -1

\* PostFeed.handleShowDetail, then the effect of PostModal that calls
\* loadPostDetail when the modal is open on a post id
handleShowDetail(p) ==
  /\ card[p].mounted
  /\ FindIndex(posts, p) # -1
  /\ budget > 0
  /\ budget' = budget - 1
  /\ selectedPostId' = p
  /\ selectedPostIndex' = FindIndex(posts, p)
  /\ detailReqs' = IF selectedPostId # p THEN detailReqs \cup {p} ELSE detailReqs
  /\ evt' = Event("showDetail", p, FALSE)
  /\ UNCHANGED <<posts, likeVars, cmtVars, menuVars, modal, modalForm, modalCmtReqs,
                 modalDelReqs>>

\* PostFeed.handleCloseModal, then the effect of PostModal that clears post
\* and comments when the modal is not open
handleCloseModal ==
  /\ selectedPostId # 0
  /\ budget > 0
  /\ budget' = budget - 1
  /\ selectedPostId' = 0
  /\ selectedPostIndex' = -1
  /\ modal' = [modal EXCEPT !.loaded = FALSE, !.comments = <<>>]
  /\ modalForm' = NoModalForm
  /\ evt' = Event("closeModal", 0, FALSE)
  /\ UNCHANGED <<posts, likeVars, cmtVars, menuVars, detailReqs, modalCmtReqs, modalDelReqs>>

\* PostModal.loadPostDetail after the fetch: response.ok
DetailRespOk(p, n) ==
  /\ p \in detailReqs
  /\ detailReqs' = detailReqs \ {p}
  /\ LET listed == IF p \in Loaded(posts) THEN PostOf(posts, p).recentComments ELSE <<>>
     IN /\ n >= Len(listed)
        /\ modal' = [loaded |-> TRUE, post_id |-> p, comments_count |-> n, comments |-> listed]
  /\ evt' = Event("detailOk", p, FALSE)
  /\ UNCHANGED <<posts, likeVars, cmtVars, menuVars, selectedPostId, selectedPostIndex,
                 modalForm, modalCmtReqs, modalDelReqs, budget>>

\* PostModal.loadPostDetail after the fetch: failure, setError
DetailRespFail(p) ==
  /\ p \in detailReqs
  /\ detailReqs' = detailReqs \ {p}
  /\ evt' = Event("detailFail", p, FALSE)
  /\ UNCHANGED <<posts, likeVars, cmtVars, menuVars, selectedPostId, selectedPostIndex,
                 modal, modalForm, modalCmtReqs, modalDelReqs, budget>>

\* CommentForm.handleSubmit and PostModal.handleComment up to the fetch
ModalSubmit ==
  /\ selectedPostId # 0
  /\ modal.loaded
  /\ budget > 0
  /\ budget' = budget - 1
  /\ IF modalForm.isSubmitting
       THEN /\ evt' = Event("modalCommentDropped", modal.post_id, FALSE)
            /\ UNCHANGED <<modalForm, modalCmtReqs>>
       ELSE /\ modalForm' = [modalForm EXCEPT !.isSubmitting = TRUE]
            /\ modalCmtReqs' = Append(modalCmtReqs, [post |-> modal.post_id])
            /\ evt' = Event("modalCommentSubmit", modal.post_id, FALSE)
  /\ UNCHANGED <<posts, likeVars, cmtVars, menuVars, selectedPostId, selectedPostIndex,
                 modal, detailReqs, modalDelReqs>>

\* PostModal.handleComment after the fetch: response.ok.  setComments and
\* setPost run; the argument prev.comments_count + 1 of onCommentChange then
\* reads the undeclared name prev, so the call throws before onCommentChange
\* runs and CommentForm shows the error.
ModalCommentRespOk(i) ==
  /\ i \in DOMAIN modalCmtReqs
  /\ modalCmtReqs' = Without(modalCmtReqs, i)
  /\ modal' = IF modal.loaded
                THEN [modal EXCEPT !.comments = <<nextId>> \o @,
                                   !.comments_count = @ + 1]
                ELSE [modal EXCEPT !.comments = <<nextId>> \o @]
  /\ nextId' = nextId + 1
  /\ modalForm' = [modalForm EXCEPT !.isSubmitting = FALSE]
  /\ evt' = Event("modalCommentOk", modalCmtReqs[i].post, TRUE)
  /\ UNCHANGED <<posts, likeVars, isSubmitting, cmtReqs, deletingCommentId, delReqs,
                 menuVars, selectedPostId, selectedPostIndex, detailReqs, modalDelReqs,
                 budget>>

\* PostModal.handleComment after the fetch: failure, rethrown to CommentForm
ModalCommentRespFail(i) ==
  /\ i \in DOMAIN modalCmtReqs
  /\ modalCmtReqs' = Without(modalCmtReqs, i)
  /\ modalForm' = [modalForm EXCEPT !.isSubmitting = FALSE]
  /\ evt' = Event("modalCommentFail", modalCmtReqs[i].post, TRUE)
  /\ UNCHANGED <<posts, likeVars, cmtVars, menuVars, selectedPostId, selectedPostIndex,
                 modal, detailReqs, modalDelReqs, budget>>

\* CommentList.handleDeleteComment and PostModal.handleCommentDelete up to
\* the fetch
ModalDeleteComment(c) ==
  /\ selectedPostId # 0
  /\ modal.loaded
  /\ c \in Range(modal.comments)
  /\ budget > 0
  /\ budget' = budget - 1
  /\ IF modalForm.deletingCommentId # 0
       THEN /\ evt' = Event("modalDelDropped", modal.post_id, FALSE)
            /\ UNCHANGED <<modalForm, modalDelReqs>>
       ELSE /\ modalForm' = [modalForm EXCEPT !.deletingCommentId = c]
            /\ modalDelReqs' = modalDelReqs \cup {[id |-> c, post |-> modal.post_id]}
            /\ evt' = Event("modalDelete", modal.post_id, FALSE)
  /\ UNCHANGED <<posts, likeVars, cmtVars, menuVars, selectedPostId, selectedPostIndex,
                 modal, detailReqs, modalCmtReqs>>

\* PostModal.handleCommentDelete after the fetch: response.ok.  setComments
\* runs; Math.max(0, prev.comments_count - 1) then reads the undeclared name
\* prev, so the handler throws before setPost and onCommentDelete.
ModalDelRespOk(r) ==
  /\ r \in modalDelReqs
  /\ modalDelReqs' = modalDelReqs \ {r}
  /\ modal' = [modal EXCEPT !.comments = SelectSeq(@, LAMBDA c : c # r.id)]
  /\ modalForm' = [modalForm EXCEPT !.deletingCommentId = IF @ = r.id THEN 0 ELSE @]
  /\ evt' = Event("modalDelOk", r.post, FALSE)
  /\ UNCHANGED <<posts, likeVars, cmtVars, menuVars, selectedPostId, selectedPostIndex,
                 detailReqs, modalCmtReqs, budget>>

\* PostModal.handleCommentDelete after the fetch: failure, rethrown to CommentList
ModalDelRespFail(r) ==
  /\ r \in modalDelReqs
  /\ modalDelReqs' = modalDelReqs \ {r}
  /\ modalForm' = [modalForm EXCEPT !.deletingCommentId = IF @ = r.id THEN 0 ELSE @]
  /\ evt' = Event("modalDelFail", r.post, FALSE)
  /\ UNCHANGED <<posts, likeVars, cmtVars, menuVars, selectedPostId, selectedPostIndex,
                 modal, detailReqs, modalCmtReqs, budget>>

NextModal ==
  \/ \E p \in FeedIds : handleShowDetail(p)
  \/ handleCloseModal
  \/ \E p \in detailReqs : \E n \in 0..MaxComments0 : DetailRespOk(p, n)
  \/ \E p \in detailReqs : DetailRespFail(p)
  \/ ModalSubmit
  \/ \E i \in DOMAIN modalCmtReqs : ModalCommentRespOk(i)
  \/ \E i \in DOMAIN modalCmtReqs : ModalCommentRespFail(i)
  \/ \E c \in 1..nextId : ModalDeleteComment(c)
  \/ \E r \in modalDelReqs : ModalDelRespOk(r)
  \/ \E r \in modalDelReqs : ModalDelRespFail(r)

(***************************************************************************)
(* The navigator of the detail view: PostFeed.handlePreviousPost and       *)
(* handleNextPost, called by the arrows of the open PostModal, and the     *)
(* same handlers of the activity page (the liked posts), whose list only   *)
(* grows.  Reading post_id of a post that is not in the list throws.       *)
(***************************************************************************)
\* PostFeed.handlePreviousPost, then the effect of PostModal that loads the
\* detail of a new post id
handlePreviousPost ==
  /\ selectedPostId # 0
  /\ budget > 0
  /\ budget' = budget - 1
  /\ IF selectedPostIndex > 0
       THEN LET prevIndex == selectedPostIndex - 1
            IN IF prevIndex + 1 \in DOMAIN posts
                 THEN /\ selectedPostId' = posts[prevIndex + 1].post_id
                      /\ selectedPostIndex' = prevIndex
                      /\ detailReqs' = IF selectedPostId' # selectedPostId
                                         THEN detailReqs \cup {selectedPostId'}
                                         ELSE detailReqs
                      /\ evt' = Event("previous", selectedPostId', FALSE)
                 ELSE /\ evt' = Event("previous", 0, TRUE)
                      /\ UNCHANGED <<selectedPostId, selectedPostIndex, detailReqs>>
       ELSE /\ evt' = Event("previous", 0, FALSE)
            /\ UNCHANGED <<selectedPostId, selectedPostIndex, detailReqs>>
  /\ UNCHANGED <<posts, likeVars, cmtVars, menuVars, modal, modalForm, modalCmtReqs,
                 modalDelReqs>>

\* a handleNextPost that wraps around to the first post
handleNextPostWrapping ==
  /\ selectedPostId # 0
  /\ budget > 0
  /\ budget' = budget - 1
  /\ LET nextIndex == IF selectedPostIndex < Len(posts) - 1 THEN selectedPostIndex + 1 ELSE 0
     IN IF nextIndex + 1 \in DOMAIN posts
          THEN /\ selectedPostId' = posts[nextIndex + 1].post_id
               /\ selectedPostIndex' = nextIndex
               /\ detailReqs' = IF selectedPostId' # selectedPostId
                                  THEN detailReqs \cup {selectedPostId'}
                                  ELSE detailReqs
               /\ evt' = Event("next", selectedPostId', FALSE)
          ELSE /\ evt' = Event("next", 0, TRUE)
               /\ UNCHANGED <<selectedPostId, selectedPostIndex, detailReqs>>
  /\ UNCHANGED <<posts, likeVars, cmtVars, menuVars, modal, modalForm, modalCmtReqs,
                 modalDelReqs>>

\* PostFeed.handleNextPost, then the effect of PostModal that loads the
\* detail of a new post id
handleNextPost ==
  /\ selectedPostId # 0
  /\ budget > 0
  /\ budget' = budget - 1
  /\ IF selectedPostIndex < Len(posts) - 1
       THEN LET nextIndex == selectedPostIndex + 1
            IN IF nextIndex + 1 \in DOMAIN posts
                 THEN /\ selectedPostId' = posts[nextIndex + 1].post_id
                      /\ selectedPostIndex' = nextIndex
                      /\ detailReqs' = IF selectedPostId' # selectedPostId
                                         THEN detailReqs \cup {selectedPostId'}
                                         ELSE detailReqs
                      /\ evt' = Event("next", selectedPostId', FALSE)
                 ELSE /\ evt' = Event("next", 0, TRUE)
                      /\ UNCHANGED <<selectedPostId, selectedPostIndex, detailReqs>>
       ELSE /\ evt' = Event("next", 0, FALSE)
            /\ UNCHANGED <<selectedPostId, selectedPostIndex, detailReqs>>
  /\ UNCHANGED <<posts, likeVars, cmtVars, menuVars, modal, modalForm, modalCmtReqs,
                 modalDelReqs>>

NextNavigator ==
  \/ \E p \in FeedIds : handleShowDetail(p)
  \/ handleCloseModal
  \/ handlePreviousPost
  \/ handleNextPost
  \/ \E p \in detailReqs : \E n \in 0..MaxComments0 : DetailRespOk(p, n)
  \/ \E p \in detailReqs : DetailRespFail(p)

\* ActivityPage: the liked posts loaded, selectedPostId (0 is null),
\* selectedPostIndex, fetchLikedPosts requests outstanding and the handler
\* that ran last
\* the load state of ActivityPage before its first effect: the user of
\* useUser(), isLoading, isLoadingMore, error, hasMore, offset, whether the
\* load effect is due (its dependencies changed in the last render), the
\* requests outstanding and the number of requests sent
LoadIdle ==
  [user |-> FALSE, isLoading |-> TRUE, isLoadingMore |-> FALSE, error |-> None,
   hasMore |-> TRUE, offset |-> 0, effectDue |-> FALSE, reqs |-> <<>>, sent |-> 0]

ActivityIdle ==
  activity = [posts |-> <<>>, selectedPostId |-> 0, selectedPostIndex |-> -1,
              fetches |-> 0, last |-> "init", load |-> LoadIdle]

\* ids.findIndex(id => id === postId), 0-based, -1 if absent
IndexOfId(ids, postId) ==
  IF postId \in Range(ids) THEN (CHOOSE i \in DOMAIN ids : ids[i] = postId) - 1 ELSE -1

\* ActivityPage.handleShowDetail, from the card of a loaded post
ActivityShowDetail(p) ==
  /\ p \in Range(activity.posts)
  /\ budget > 0
  /\ budget' = budget - 1
  /\ activity' = [activity EXCEPT !.selectedPostIndex = IndexOfId(activity.posts, p),
                                  !.selectedPostId = p,
                                  !.last = "showDetail"]

\* ActivityPage.handleCloseModal
ActivityCloseModal ==
  /\ activity.selectedPostId # 0
  /\ budget > 0
  /\ budget' = budget - 1
  /\ activity' = [activity EXCEPT !.selectedPostId = 0, !.selectedPostIndex = -1,
                                  !.last = "closeModal"]

\* ActivityPage.handlePrevious
handlePrevious ==
  /\ activity.selectedPostId # 0
  /\ budget > 0
  /\ budget' = budget - 1
  /\ activity' =
       IF activity.selectedPostIndex > 0
         THEN [activity EXCEPT !.selectedPostIndex = @ - 1,
                               !.selectedPostId = activity.posts[activity.selectedPostIndex],
                               !.last = "previous"]
         ELSE [activity EXCEPT !.last = "previous"]

\* ActivityPage.handleNext
handleNext ==
  /\ activity.selectedPostId # 0
  /\ budget > 0
  /\ budget' = budget - 1
  /\ activity' =
       IF activity.selectedPostIndex < Len(activity.posts) - 1
         THEN [activity EXCEPT !.selectedPostIndex = @ + 1,
                               !.selectedPostId = activity.posts[activity.selectedPostIndex + 2],
                               !.last = "next"]
         ELSE [activity EXCEPT !.last = "next"]

\* the scroll handler of ActivityPage: fetchLikedPosts(offset, true) up to
\* the fetch
ActivityScroll ==
  /\ activity.fetches = 0
  /\ Len(activity.posts) < MaxFeed
  /\ budget > 0
  /\ budget' = budget - 1
  /\ activity' = [activity EXCEPT !.fetches = 1, !.last = "scroll"]

\* fetchLikedPosts after the fetch: the page is appended
ActivityPageLoaded ==
  /\ activity.fetches > 0
  /\ activity' = [activity EXCEPT !.posts = Append(@, Len(@) + 1),
                                  !.fetches = 0, !.last = "pageLoaded"]
  /\ UNCHANGED budget

NextActivity ==
  \/ \E p \in FeedIds : ActivityShowDetail(p)
  \/ ActivityCloseModal
  \/ handlePrevious
  \/ handleNext
  \/ ActivityScroll
  \/ ActivityPageLoaded

(***************************************************************************)
(* PostFeed loading its pages: the mount effect, the IntersectionObserver  *)
(* callback, fetchPosts and handleRetry.  The page size is pgK.  A render  *)
(* follows each handler step before the observer can fire again.           *)
(***************************************************************************)
NoFeedEvt == [kind |-> "init", threw |-> FALSE]
FeedUnmounted ==
  [mounted |-> FALSE, isLoading |-> FALSE, isLoadingMore |-> FALSE, error |-> None,
   isFetching |-> FALSE, halted |-> FALSE]
ScrollIdle ==
  /\ feed = FeedUnmounted
  /\ feedReqs = <<>>
  /\ feedEvt = NoFeedEvt
  /\ feedBudget = 0

\* the flag a caller of fetchPosts sets before and clears in its finally
CallerFlag(f, caller, v) ==
  IF caller = "more" THEN [f EXCEPT !.isLoadingMore = v] ELSE [f EXCEPT !.isLoading = v]

\* fetchPosts(currentOffset, append) up to the fetch, called with the
\* caller's flag set; when isFetchingRef is set it returns at once and the
\* caller's finally clears the flag
FetchPosts(currentOffset, append, caller) ==
  IF feed.isFetching
    THEN /\ feed' = CallerFlag(feed, caller, FALSE)
         /\ UNCHANGED feedReqs
    ELSE /\ feed' = [CallerFlag(feed, caller, TRUE) EXCEPT !.isFetching = TRUE,
                                                          !.mounted = TRUE,
                                                          !.halted = (caller # "retry") /\ @]
         /\ feedReqs' = Append(feedReqs, [offset |-> currentOffset, append |-> append,
                                          caller |-> caller])

\* the mount effect: initialPosts is empty
InitialLoad ==
  /\ ~feed.mounted
  /\ Len(pgPosts) = 0 /\ ~feed.isLoading /\ feed.error = None
  /\ FetchPosts(0, FALSE, "initial")
  /\ feedEvt' = [kind |-> "initialLoad", threw |-> FALSE]
  /\ UNCHANGED <<pgK, pgOffset, pgPosts, pgHasMore, pgPages, pgWhole, feedBudget>>

\* the sentinel is rendered: not the skeleton, not the error screen, hasMore
SentinelShown == feed.mounted /\ ~feed.isLoading /\ feed.error = None /\ pgHasMore

\* the IntersectionObserver callback with entry.isIntersecting
ObserverFires ==
  /\ SentinelShown
  /\ pgHasMore /\ ~feed.isLoadingMore /\ ~feed.isFetching
  /\ feedBudget > 0
  /\ feedBudget' = feedBudget - 1
  /\ FetchPosts(pgOffset, TRUE, "more")
  /\ feedEvt' = [kind |-> "observer", threw |-> FALSE]
  /\ UNCHANGED <<pgK, pgOffset, pgPosts, pgHasMore, pgPages, pgWhole>>

\* an observer callback that asks for the next page whatever isFetchingRef says
ObserverSendsAnyway ==
  /\ feed.mounted /\ feed.isFetching /\ pgHasMore
  /\ feedBudget > 0
  /\ feedBudget' = feedBudget - 1
  /\ feedReqs' = Append(feedReqs, [offset |-> pgOffset, append |-> TRUE, caller |-> "more"])
  /\ feedEvt' = [kind |-> "observerDropped", threw |-> FALSE]
  /\ UNCHANGED <<feed, pgK, pgOffset, pgPosts, pgHasMore, pgPages, pgWhole>>

\* the IntersectionObserver callback with entry.isIntersecting while a fetch
\* is outstanding (the observer of the first render, or of a render made
\* while the next page loads): isFetchingRef.current is set and nothing is
\* asked for
ObserverDrops ==
  /\ feed.mounted /\ feed.isFetching /\ pgHasMore
  /\ feedBudget > 0
  /\ feedBudget' = feedBudget - 1
  /\ feedEvt' = [kind |-> "observerDropped", threw |-> FALSE]
  /\ UNCHANGED <<feed, feedReqs, pgK, pgOffset, pgPosts, pgHasMore, pgPages, pgWhole>>

\* handleRetry, the button of the error screen
handleRetry ==
  /\ feed.mounted /\ ~feed.isLoading /\ feed.error # None
  /\ feedBudget > 0
  /\ feedBudget' = feedBudget - 1
  /\ LET cleared == [feed EXCEPT !.error = None]
     IN IF feed.isFetching
          THEN feed' = CallerFlag(cleared, "retry", FALSE) /\ UNCHANGED feedReqs
          ELSE /\ feed' = [CallerFlag(cleared, "retry", TRUE) EXCEPT !.isFetching = TRUE,
                                                                   !.halted = FALSE]
               /\ feedReqs' = Append(feedReqs, [offset |-> 0, append |-> FALSE,
                                                caller |-> "retry"])
  /\ feedEvt' = [kind |-> "retry", threw |-> FALSE]
  /\ UNCHANGED <<pgK, pgOffset, pgPosts, pgHasMore, pgPages, pgWhole>>

\* fetchPosts after the fetch: response.ok and a body that parses
FeedRespOk(i) ==
  /\ i \in DOMAIN feedReqs
  /\ \E r \in GET(dbPosts, NumToString(pgK), NumToString(feedReqs[i].offset), None) :
       /\ r.status = 200
       /\ pgPosts' = IF feedReqs[i].append THEN pgPosts \o r.data ELSE r.data
       /\ pgHasMore' = r.hasMore
       /\ pgOffset' = feedReqs[i].offset + Len(r.data)
  /\ feed' = [CallerFlag(feed, feedReqs[i].caller, FALSE) EXCEPT !.error = None,
                                                                 !.isFetching = FALSE]
  /\ feedReqs' = Without(feedReqs, i)
  /\ pgPages' = pgPages + 1
  /\ feedEvt' = [kind |-> "fetchOk", threw |-> FALSE]
  /\ UNCHANGED <<pgK, pgWhole, feedBudget>>

\* failure paths that leave hasMore as it was
FetchFailureKeepsMore(hasMore, response, error) ==
  [error |-> handleFetchError(response, error), hasMore |-> hasMore, threw |-> FALSE]

\* what the three failure paths of fetchPosts leave: the error type, the
\* hasMore flag and whether an exception leaves fetchPosts
FetchFailure(hasMore, response, error) ==
  [error |-> handleFetchError(response, error), hasMore |-> FALSE, threw |-> FALSE]

\* the failures of a fetch: fetch throws, the status is not 2xx, or the
\* body of a 2xx response does not parse (handled with a null response)
FetchFailures ==
  {[response |-> 0, error |-> "typeErrorFetch"], [response |-> 404, error |-> "none"],
   [response |-> 500, error |-> "none"], [response |-> 501, error |-> "none"],
   [response |-> 0, error |-> "other"]}

\* fetchPosts after the fetch: one of the failures
FeedRespFail(i, x) ==
  /\ i \in DOMAIN feedReqs
  /\ LET out == FetchFailure(pgHasMore, x.response, x.error)
     IN /\ feed' = [CallerFlag(feed, feedReqs[i].caller, FALSE) EXCEPT
                      !.error = out.error, !.isFetching = FALSE, !.halted = TRUE]
        /\ pgHasMore' = out.hasMore
        /\ feedEvt' = [kind |-> "fetchFail", threw |-> out.threw]
  /\ feedReqs' = Without(feedReqs, i)
  /\ UNCHANGED <<pgK, pgOffset, pgPosts, pgPages, pgWhole, feedBudget>>

NextScroll ==
  \/ InitialLoad
  \/ ObserverFires
  \/ ObserverDrops
  \/ handleRetry
  \/ \E i \in DOMAIN feedReqs : FeedRespOk(i)
  \/ \E i \in DOMAIN feedReqs : \E x \in FetchFailures : FeedRespFail(i, x)

(***************************************************************************)
(* ActivityPage loading the liked posts: the load effect with dependencies *)
(* [user, fetchLikedPosts] and fetchLikedPosts, a callback with dependency *)
(* [isLoadingMore].  A render follows each step: the callback of the new   *)
(* render closes over the new isLoadingMore, and the effect is due again   *)
(* when user or the callback changed.                                      *)
(***************************************************************************)
ActivityLimit == 10

\* the effect is due after a render in which user or fetchLikedPosts changed
EffectDue(old, new) ==
  new.effectDue \/ old.user # new.user \/ old.isLoadingMore # new.isLoadingMore

\* GET /api/likes/user for a signed-in user with a users row: the liked
\* posts, newest first, and hasMore
LikesUserGET(who, limit, offset) ==
  LET liked == {q \in DOMAIN dbPosts : dbLikes[<<q, who>>] > 0}
      count == Cardinality(liked)
      RECURSIVE Desc(_)
      Desc(S) == IF S = {} THEN <<>>
                 ELSE LET m == CHOOSE x \in S : \A y \in S : y <= x
                      IN <<m>> \o Desc(S \ {m})
      all == Desc(liked)
  IN [data |-> IF offset >= count THEN <<>>
               ELSE SubSeq(all, offset + 1, Min(offset + limit, count)),
      hasMore |-> IF count # 0 THEN offset + limit < count ELSE FALSE]

\* useUser() returns the user
UserLoaded ==
  /\ ~activity.load.user
  /\ LET new == [activity.load EXCEPT !.user = TRUE]
     IN activity' = [activity EXCEPT !.load = [new EXCEPT !.effectDue = EffectDue(activity.load, new)],
                                     !.last = "userLoaded"]

\* the load effect: fetchLikedPosts(0, false) up to the fetch, when there
\* is a user
LoadEffect ==
  /\ activity.load.effectDue
  /\ LET ran == [activity.load EXCEPT !.effectDue = FALSE]
         new == IF ~ran.user \/ ran.isLoadingMore THEN ran
                ELSE [ran EXCEPT !.isLoadingMore = TRUE,
                                 !.reqs = Append(@, [offset |-> 0, append |-> FALSE]),
                                 !.sent = Min(@ + 1, MaxLoads)]
     IN activity' = [activity EXCEPT !.load = [new EXCEPT !.effectDue = EffectDue(ran, new)],
                                     !.last = "loadEffect"]

\* fetchLikedPosts after the fetch: response.ok and a body that parses
LikedRespOk(i) ==
  /\ i \in DOMAIN activity.load.reqs
  /\ LET r == activity.load.reqs[i]
         resp == LikesUserGET(viewer, ActivityLimit, r.offset)
         new == [activity.load EXCEPT !.hasMore = resp.hasMore,
                                      !.offset = r.offset + Len(resp.data),
                                      !.error = None,
                                      !.isLoadingMore = FALSE,
                                      !.isLoading = FALSE,
                                      !.reqs = Without(@, i)]
     IN activity' = [activity EXCEPT
                       !.posts = IF r.append THEN @ \o resp.data ELSE resp.data,
                       !.load = [new EXCEPT !.effectDue = EffectDue(activity.load, new)],
                       !.last = "likedOk"]

\* fetchLikedPosts after the fetch: one of the failures; a body that does
\* not parse also clears hasMore
LikedRespFail(i, x) ==
  /\ i \in DOMAIN activity.load.reqs
  /\ LET new == [activity.load EXCEPT !.error = handleFetchError(x.response, x.error),
                                      !.hasMore = IF x.error = "other" THEN FALSE ELSE @,
                                      !.isLoadingMore = FALSE,
                                      !.isLoading = FALSE,
                                      !.reqs = Without(@, i)]
     IN activity' = [activity EXCEPT
                       !.load = [new EXCEPT !.effectDue = EffectDue(activity.load, new)],
                       !.last = "likedFail"]

LikedResponse ==
  \/ \E i \in DOMAIN activity.load.reqs : LikedRespOk(i)
  \/ \E i \in DOMAIN activity.load.reqs : \E x \in FetchFailures : LikedRespFail(i, x)

NextLikedLoad ==
  \/ UserLoaded
  \/ LoadEffect
  \/ LikedResponse

(***************************************************************************)
(* FollowButton                                                            *)
(***************************************************************************)
\* FollowButton.handleFollowToggle up to the fetch
handleFollowToggle ==
  /\ budget > 0
  /\ budget' = budget - 1
  /\ IF follow.isLoading
       THEN /\ evt' = Event("followDropped", 0, FALSE)
            /\ UNCHANGED <<follow, followReq>>
       ELSE LET wasFollowing == follow.optimisticFollowing
                willBeFollowing == ~wasFollowing
            IN /\ follow' = [isLoading |-> TRUE, optimisticFollowing |-> willBeFollowing]
               /\ followReq' = Append(followReq, [wasFollowing |-> wasFollowing])
               /\ evt' = Event("followToggle", 0, FALSE)

\* a success path that leaves isLoading set
FollowRespOkKeepsLoading(i) ==
  /\ i \in DOMAIN followReq
  /\ follow' = follow
  /\ followReq' = Without(followReq, i)
  /\ evt' = Event("followOk", 0, FALSE)
  /\ UNCHANGED budget

\* handleFollowToggle after the fetch: response.ok
FollowRespOk(i) ==
  /\ i \in DOMAIN followReq
  /\ follow' = [follow EXCEPT !.isLoading = FALSE]
  /\ followReq' = Without(followReq, i)
  /\ evt' = Event("followOk", 0, FALSE)
  /\ UNCHANGED budget

\* handleFollowToggle after the fetch: network error or !response.ok
FollowRespFail(i) ==
  /\ i \in DOMAIN followReq
  /\ follow' = [isLoading |-> FALSE, optimisticFollowing |-> followReq[i].wasFollowing]
  /\ followReq' = Without(followReq, i)
  /\ evt' = Event("followFail", 0, TRUE)
  /\ UNCHANGED budget

NextFollow ==
  \/ handleFollowToggle
  \/ \E i \in DOMAIN followReq : FollowRespOk(i)
  \/ \E i \in DOMAIN followReq : FollowRespFail(i)

vars == <<auxVars, apiVars, pgVars, posts, likeVars, cmtVars, menuVars, modalVars, followVars,
          budget, evt>>

\* a feed post as GET /api/posts returns it
FeedPost(id, liked, likes, comments, recent) ==
  [post_id |-> id, isLiked |-> liked, likes_count |-> likes,
   comments_count |-> comments, recentComments |-> recent]

NoHist ==
  [tapped |-> FALSE, failed |-> FALSE, dropped |-> FALSE, likes |-> 0, unlikes |-> 0,
   snapIsLiked |-> FALSE, snapLikesCount |-> 0, snapCard |-> Unmounted,
   isLiked0 |-> FALSE, likes0 |-> 0]

\* the components mounted for the loaded posts
MountFeed ==
  /\ card = [p \in FeedIds |->
              IF p \in Loaded(posts)
                THEN [mounted |-> TRUE, isLiked |-> PostOf(posts, p).isLiked,
                      likesCount |-> PostOf(posts, p).likes_count]
                ELSE Unmounted]
  /\ lb = [p \in FeedIds |->
            [isLiked |-> card[p].isLiked, likesCount |-> card[p].likesCount,
             isLoading |-> FALSE]]
  /\ lbReq = [p \in FeedIds |-> <<>>]
  /\ tapReqs = [p \in FeedIds |-> [m \in Methods |-> 0]]
  /\ hist = [p \in FeedIds |->
              [NoHist EXCEPT !.isLiked0 = card[p].isLiked, !.likes0 = card[p].likesCount]]
  /\ isSubmitting = [p \in FeedIds |-> FALSE]
  /\ cmtReqs = [p \in FeedIds |-> 0]
  /\ deletingCommentId = [p \in FeedIds |-> 0]
  /\ delReqs = {}
  /\ nextId = 2 * MaxFeed + 1
  /\ isDeleting = [p \in FeedIds |-> FALSE]
  /\ postDelReqs = {}
  /\ selectedPostId = 0
  /\ selectedPostIndex = -1
  /\ modal = NoModal
  /\ modalForm = NoModalForm
  /\ detailReqs = {}
  /\ modalCmtReqs = <<>>
  /\ modalDelReqs = {}
  /\ evt = NoEvent

StoreIdle ==
  /\ ClassifierIdle
  /\ ActivityIdle
  /\ ServerIdle
  /\ dbUsers = {}
  /\ dbComments = <<>>
  /\ dbLikes = NoLikes
  /\ viewer = None
  /\ apiRich = <<>>
  /\ detailResp = NoDetail

ApiIdle ==
  /\ dbPosts = <<>>
  /\ apiReq = NoRequest
  /\ apiResp = NoResponse
  /\ StoreIdle

ClientIdle ==
  /\ posts = <<>>
  /\ MountFeed
  /\ budget = 0
  /\ follow = [isLoading |-> FALSE, optimisticFollowing |-> FALSE]
  /\ followReq = <<>>

clientVars == <<posts, likeVars, cmtVars, menuVars, modalVars, followVars, budget, evt>>


PagerIdle ==
  /\ pgK = 1
  /\ pgOffset = 0
  /\ pgPosts = <<>>
  /\ pgHasMore = FALSE
  /\ pgPages = 0
  /\ pgWhole = [fetched |-> TRUE, data |-> <<>>]
  /\ ScrollIdle

\* one request to GET /api/posts on one store content
InitApi ==
  /\ dbPosts \in Stores
  /\ apiReq \in Requests
  /\ apiResp = NoResponse
  /\ StoreIdle
  /\ PagerIdle
  /\ ClientIdle

NextApi == ApiGet /\ UNCHANGED <<auxVars, pgVars, clientVars>>

SpecApi == InitApi /\ [][NextApi]_vars

\* a client paging through one store content
InitPager ==
  /\ dbPosts \in Stores
  /\ apiReq = NoRequest
  /\ apiResp = NoResponse
  /\ StoreIdle
  /\ pgK \in 1..MaxK
  /\ pgOffset = 0
  /\ pgPosts = <<>>
  /\ pgHasMore = TRUE
  /\ pgPages = 0
  /\ pgWhole = [fetched |-> FALSE, data |-> <<>>]
  /\ ScrollIdle
  /\ ClientIdle

NextPager ==
  \/ PagerFetch /\ UNCHANGED <<auxVars, apiVars, clientVars>>
  \/ PagerWhole /\ UNCHANGED <<auxVars, apiVars, clientVars>>

SpecPager == InitPager /\ [][NextPager]_vars

\* the like and follow controls of one card and one profile
InitControls ==
  /\ ApiIdle
  /\ PagerIdle
  /\ \E liked \in BOOLEAN, likes \in 0..MaxLikes0 :
       /\ liked => likes >= 1
       /\ posts = <<FeedPost(1, liked, likes, 0, <<>>)>>
  /\ MountFeed
  /\ budget = MaxActions
  /\ follow \in [isLoading : {FALSE}, optimisticFollowing : BOOLEAN]
  /\ followReq = <<>>

NextControls ==
  \/ NextLike /\ UNCHANGED <<auxVars, apiVars, pgVars, cmtVars, menuVars, modalVars, followVars>>
  \/ NextFollow /\ UNCHANGED <<auxVars, apiVars, pgVars, posts, likeVars, cmtVars, menuVars, modalVars>>

SpecControls == InitControls /\ [][NextControls]_vars

\* the comments a post is loaded with: post p has the comments 2p-1 and 2p
\* at most, the newer one first, and a comments_count of at least as many
FeedComments(p) == {<<>>, <<2 * p>>, <<2 * p, 2 * p - 1>>}
InitialFeeds ==
  {ps \in [1..MaxFeed -> [post_id : FeedIds, isLiked : {FALSE}, likes_count : {0},
                           comments_count : 0..MaxComments0,
                           recentComments : UNION {FeedComments(p) : p \in FeedIds}]] :
     \A i \in 1..MaxFeed :
       /\ ps[i].post_id = i
       /\ ps[i].recentComments \in FeedComments(i)
       /\ ps[i].comments_count >= Len(ps[i].recentComments)
       /\ Len(ps[i].recentComments) < 2 => ps[i].comments_count = Len(ps[i].recentComments)}

\* a feed whose cards are used to write and delete comments
InitFeed ==
  /\ ApiIdle
  /\ PagerIdle
  /\ posts \in InitialFeeds
  /\ MountFeed
  /\ budget = MaxFeedActions
  /\ follow = [isLoading |-> FALSE, optimisticFollowing |-> FALSE]
  /\ followReq = <<>>

NextFeed ==
  NextComments /\ UNCHANGED <<auxVars, apiVars, pgVars, likeVars, menuVars, modalVars, followVars>>

SpecFeed == InitFeed /\ [][NextFeed]_vars

\* a feed of posts, every other one liked and commented, with every interaction of its cards and of the
\* detail view
ClientFeed ==
  [i \in 1..MaxFeed |->
     [post_id |-> i, isLiked |-> i % 2 = 1, likes_count |-> i % 2,
      comments_count |-> 2 * (i % 2),
      recentComments |-> IF i % 2 = 1 THEN <<2 * i, 2 * i - 1>> ELSE <<>>]]

InitClient ==
  /\ ApiIdle
  /\ PagerIdle
  /\ posts = ClientFeed
  /\ MountFeed
  /\ budget = MaxClientActions
  /\ follow = [isLoading |-> FALSE, optimisticFollowing |-> FALSE]
  /\ followReq = <<>>

NextClient ==
  \/ NextLike /\ UNCHANGED <<auxVars, apiVars, pgVars, cmtVars, menuVars, modalVars, followVars>>
  \/ NextComments /\ UNCHANGED <<auxVars, apiVars, pgVars, likeVars, menuVars, modalVars, followVars>>
  \/ NextMenu /\ UNCHANGED <<auxVars, apiVars, pgVars, followVars>>
  \/ NextModal /\ UNCHANGED <<auxVars, apiVars, pgVars, followVars>>

SpecClient == InitClient /\ [][NextClient]_vars

\* C28: after a comment was created or deleted on the server from the
\* detail view, the handler ends without an error, the comments_count of the
\* detail view has changed by exactly 1 (not below 0), and the comments_count
\* of that post in the feed is the same new value.
ModalCommentSynced ==
  [][ /\ ( /\ evt'.kind = "modalCommentOk"
           /\ Len(modalCmtReqs') < Len(modalCmtReqs)
           /\ modal.loaded /\ evt'.post \in Loaded(posts') ) =>
             /\ ~evt'.toast
             /\ modal'.comments_count = modal.comments_count + 1
             /\ PostOf(posts', evt'.post).comments_count = modal'.comments_count
      /\ ( /\ evt'.kind = "modalDelOk"
           /\ modalDelReqs' # modalDelReqs
           /\ modal.loaded /\ evt'.post \in Loaded(posts') ) =>
             /\ modal'.comments_count = Max(0, modal.comments_count - 1)
             /\ PostOf(posts', evt'.post).comments_count = modal'.comments_count ]_vars

(***************************************************************************)
(* The controls of the feed and the follow button of a profile together    *)
(***************************************************************************)
\* one post of the viewer, liked and commented, and a profile
InitInFlight ==
  /\ ApiIdle
  /\ PagerIdle
  /\ posts = SubSeq(ClientFeed, 1, 1)
  /\ MountFeed
  /\ budget = MaxFlagActions
  /\ follow = [isLoading |-> FALSE, optimisticFollowing |-> FALSE]
  /\ followReq = <<>>

\* the handlers of LikeButton, CommentForm (of a card and of the detail
\* view), PostMenu and FollowButton, and what opens and closes the detail view
NextInFlight ==
  \/ (\/ \E p \in FeedIds : handleLikeToggle(p)
      \/ \E p \in FeedIds : \E i \in DOMAIN lbReq[p] : LikeRespOk(p, i)
      \/ \E p \in FeedIds : \E i \in DOMAIN lbReq[p] : LikeRespFail(p, i))
       /\ UNCHANGED <<auxVars, apiVars, pgVars, cmtVars, menuVars, modalVars, followVars>>
  \/ (\/ \E p \in FeedIds : handleSubmit(p)
      \/ \E p \in FeedIds : CommentRespOk(p)
      \/ \E p \in FeedIds : CommentRespFail(p))
       /\ UNCHANGED <<auxVars, apiVars, pgVars, likeVars, menuVars, modalVars, followVars>>
  \/ NextMenu /\ UNCHANGED <<auxVars, apiVars, pgVars, followVars>>
  \/ (\/ \E p \in FeedIds : handleShowDetail(p)
      \/ handleCloseModal
      \/ \E p \in detailReqs : \E n \in 0..MaxComments0 : DetailRespOk(p, n)
      \/ ModalSubmit
      \/ \E i \in DOMAIN modalCmtReqs : ModalCommentRespOk(i)
      \/ \E i \in DOMAIN modalCmtReqs : ModalCommentRespFail(i))
       /\ UNCHANGED <<auxVars, apiVars, pgVars, followVars>>
  \/ NextFollow /\ UNCHANGED <<auxVars, apiVars, pgVars, posts, likeVars, cmtVars, menuVars,
                               modalVars>>

SpecInFlight == InitInFlight /\ [][NextInFlight]_vars

\* C30: for LikeButton, FollowButton, CommentForm and PostMenu, the in-flight
\* flag of a mounted control is set only while a request of that control is
\* outstanding, and the step that handles the response of its request
\* (success or failure) leaves the flag cleared.
InFlightFlagCleared ==
  /\ [](/\ \A p \in FeedIds : card[p].mounted =>
              /\ (lb[p].isLoading => Len(lbReq[p]) > 0)
              /\ (isSubmitting[p] => cmtReqs[p] > 0)
              /\ (isDeleting[p] => \E r \in postDelReqs : r.post = p)
         /\ (follow.isLoading => Len(followReq) > 0)
         /\ (modalForm.isSubmitting => Len(modalCmtReqs) > 0))
  /\ [][ /\ \A p \in FeedIds : card'[p].mounted =>
              /\ (Len(lbReq'[p]) < Len(lbReq[p]) => ~lb'[p].isLoading)
              /\ (cmtReqs'[p] < cmtReqs[p] => ~isSubmitting'[p])
              /\ ((\E r \in postDelReqs \ postDelReqs' : r.post = p) => ~isDeleting'[p])
         /\ (Len(followReq') < Len(followReq) => ~follow'.isLoading)
         /\ (Len(modalCmtReqs') < Len(modalCmtReqs) => ~modalForm'.isSubmitting) ]_vars

\* a follow toggle was accepted after the request of an earlier one had
\* succeeded, while the deletion of a post is outstanding
ToggleAcceptedAfterResponse ==
  /\ evt.kind = "followToggle"
  /\ follow.isLoading /\ ~follow.optimisticFollowing
  /\ Len(followReq) = 1 /\ followReq[1].wasFollowing
  /\ budget = MaxFlagActions - 3
  /\ \E p \in FeedIds : isDeleting[p] /\ card[p].mounted

(***************************************************************************)
(* The navigator of the detail view, in the feed and in the activity page  *)
(***************************************************************************)
InitNavigator ==
  /\ ApiIdle
  /\ PagerIdle
  /\ posts \in {SubSeq(ClientFeed, 1, n) : n \in 1..MaxFeed}
  /\ MountFeed
  /\ budget = MaxNavActions
  /\ follow = [isLoading |-> FALSE, optimisticFollowing |-> FALSE]
  /\ followReq = <<>>

NextNav ==
  \/ NextNavigator /\ UNCHANGED <<auxVars, apiVars, pgVars, followVars>>
  \/ NextMenu /\ UNCHANGED <<auxVars, apiVars, pgVars, followVars>>
  \/ NextActivity /\ UNCHANGED <<clsVars, apiVars, pgVars, posts, likeVars, cmtVars,
                                menuVars, modalVars, followVars, evt>>

SpecNavigator == InitNavigator /\ [][NextNav]_vars

DetailCursorValid ==
  selectedPostId # 0 =>
    /\ selectedPostIndex \in 0..(Len(posts) - 1)
    /\ posts[selectedPostIndex + 1].post_id = selectedPostId

\* the detail view is open on the second post while the first, whose
\* deletion was confirmed before the view was opened, has gone from the feed
CursorPastTheEnd ==
  /\ selectedPostId = 2
  /\ selectedPostIndex = 1
  /\ Len(posts) = 1
  /\ posts[1].post_id = 2

(***************************************************************************)
(* The mutating endpoints on a store with posts, comments, likes and       *)
(* follows                                                                 *)
(***************************************************************************)
SrvStores ==
  {[users |-> {"u1", "u2"},
    posts |-> <<[user_id |-> "u1", created_at |-> 1], [user_id |-> "u2", created_at |-> 2]>>,
    comments |-> <<[post_id |-> 1, user_id |-> "u2", created_at |-> 1, len |-> 1],
                   [post_id |-> 2, user_id |-> "u1", created_at |-> 2, len |-> MaxContent]>>,
    likes |-> [NoLikes EXCEPT ![<<1, "u2">>] = 1],
    follows |-> [NoFollows EXCEPT ![<<"u1", "u2">>] = 1],
    blobs |-> {1, 2}],
   [users |-> {"u1"},
    posts |-> <<[user_id |-> "u1", created_at |-> 1]>>,
    comments |-> <<[post_id |-> 1, user_id |-> "u1", created_at |-> 1, len |-> 1]>>,
    likes |-> NoLikes,
    follows |-> NoFollows,
    blobs |-> {1}]}

InitServer ==
  /\ \E store \in SrvStores :
       /\ dbUsers = store.users
       /\ dbPosts = store.posts
       /\ dbComments = store.comments
       /\ dbLikes = store.likes
       /\ dbFollows = store.follows
       /\ dbBlobs = store.blobs
  /\ srvResp = NoSrvResp
  /\ srvPending = {}
  /\ srvNext = [post |-> 3, comment |-> 3]
  /\ srvBudget = MaxRequests
  /\ ClassifierIdle
  /\ ActivityIdle
  /\ apiReq = NoRequest
  /\ apiResp = NoResponse
  /\ viewer = None
  /\ apiRich = <<>>
  /\ detailResp = NoDetail
  /\ PagerIdle
  /\ ClientIdle

SpecServer ==
  InitServer /\ [][NextServer /\ UNCHANGED <<auxVars, apiResp, apiReq, richVars, pgVars,
                                            clientVars>>]_vars

\* a request is answered in this step
Responded ==
  \/ srvBudget' < srvBudget /\ srvPending' = srvPending
  \/ Cardinality(srvPending') < Cardinality(srvPending)

\* C16: a request to a mutating endpoint without a signed-in caller is
\* answered 401 at once and leaves the tables and the bucket as they were.
UnauthenticatedRefused ==
  [][ /\ \A r \in srvPending' : r.who # None
      /\ Responded /\ srvResp'.who = None =>
           /\ srvResp'.status = 401
           /\ UNCHANGED <<dbPosts, storeVars>> ]_vars

\* a DELETE of an existing post without a signed-in caller was answered,
\* after a request that changed the store
UnauthenticatedDeleteAnswered ==
  /\ srvResp.op = "DELETE /posts"
  /\ srvResp.who = None
  /\ srvResp.id \in DOMAIN dbPosts
  /\ srvBudget <= MaxRequests - 2
  /\ srvNext.comment > 3

\* the likes of a post as post_stats counts them (up to two rows of a user)
LikesCount(likes, p) ==
  Cardinality({u \in Users : likes[<<p, u>>] > 0}) +
  Cardinality({u \in Users : likes[<<p, u>>] > 1})

\* at most one likes row per (post, user) and one follows row per pair
RowsUnique ==
  /\ \A x \in DOMAIN dbLikes : dbLikes[x] <= 1
  /\ \A x \in DOMAIN dbFollows : dbFollows[x] <= 1

\* C17: a like of a post the caller already likes and a follow of a user
\* the caller already follows are answered 409 and add no row, so the like
\* count of the post stays; the tables never hold two likes rows of one
\* (post, user) nor two follows rows of one pair, also when duplicate
\* requests overlap.
DuplicateRefused ==
  /\ []RowsUnique
  /\ [][ /\ Responded /\ srvResp'.op = "POST /likes"
            /\ <<srvResp'.id, srvResp'.who>> \in DOMAIN dbLikes
            /\ dbLikes[<<srvResp'.id, srvResp'.who>>] > 0 =>
              /\ srvResp'.status = 409
              /\ UNCHANGED <<dbPosts, storeVars>>
              /\ LikesCount(dbLikes', srvResp'.id) = LikesCount(dbLikes, srvResp'.id)
         /\ Responded /\ srvResp'.op = "POST /follows"
            /\ <<srvResp'.who, srvResp'.target>> \in DOMAIN dbFollows
            /\ dbFollows[<<srvResp'.who, srvResp'.target>>] > 0 =>
              /\ srvResp'.status = 409
              /\ UNCHANGED <<dbPosts, storeVars>> ]_vars

\* two likes of one post by one user overlapped: the second request was
\* answered 409 after the first had inserted the row
OverlappingLikeRefused ==
  /\ srvResp.op = "POST /likes"
  /\ srvResp.status = 409
  /\ srvResp.k = 2
  /\ srvPending = {}
  /\ dbLikes[<<srvResp.id, srvResp.who>>] = 1

\* every stored comment has 1 to 500 characters
StoredCommentLengths ==
  \A c \in DOMAIN dbComments : dbComments[c].len \in 1..MaxContent

\* C18: a POST /api/comments of a signed-in caller whose content has more
\* than 500 characters is answered 400 and creates no row, so the comments
\* of the post stay as they are; every stored comment has 1 to 500
\* characters.
LongCommentRefused ==
  /\ []StoredCommentLengths
  /\ [][ Responded /\ srvResp'.op = "POST /comments" /\ srvResp'.who # None
         /\ srvResp'.len > MaxContent =>
           /\ srvResp'.status = 400
           /\ UNCHANGED <<dbPosts, storeVars>> ]_vars

\* no follows row has the follower as the user followed
NoSelfFollowRows ==
  \A u \in Users : dbFollows[<<u, u>>] = 0

\* C19: a POST /api/follows whose following_id is the id of the caller's
\* own users row is answered 400 and creates no row; no follows row has the
\* follower as the user followed.
SelfFollowRefused ==
  /\ []NoSelfFollowRows
  /\ [][ Responded /\ srvResp'.op = "POST /follows" /\ srvResp'.who # None
         /\ srvResp'.who \in dbUsers /\ srvResp'.target = srvResp'.who =>
           /\ srvResp'.status = 400
           /\ UNCHANGED <<dbPosts, storeVars>> ]_vars

\* C20: a DELETE of a post by a user who is not its owner, or of a comment
\* by a user who is not its author, is answered 403 and leaves the tables
\* and the bucket as they were; a posts row goes only with a DELETE request
\* of its owner, and a comments row only with a DELETE request of its
\* author or together with its post.
OnlyOwnerDeletes ==
  [][ /\ Responded /\ srvResp'.op = "DELETE /posts" /\ srvResp'.who \in dbUsers
         /\ srvResp'.id \in DOMAIN dbPosts
         /\ dbPosts[srvResp'.id].user_id # srvResp'.who =>
           /\ srvResp'.status = 403
           /\ UNCHANGED <<dbPosts, storeVars>>
      /\ Responded /\ srvResp'.op = "DELETE /comments" /\ srvResp'.who \in dbUsers
         /\ srvResp'.id \in DOMAIN dbComments
         /\ dbComments[srvResp'.id].user_id # srvResp'.who =>
           /\ srvResp'.status = 403
           /\ UNCHANGED <<dbPosts, storeVars>>
      /\ \A p \in DOMAIN dbPosts : p \notin DOMAIN dbPosts' =>
           /\ srvResp'.op = "DELETE /posts" /\ srvResp'.id = p
           /\ srvResp'.who = dbPosts[p].user_id
      /\ \A c \in DOMAIN dbComments : c \notin DOMAIN dbComments' =>
           \/ /\ srvResp'.op = "DELETE /comments" /\ srvResp'.id = c
              /\ srvResp'.who = dbComments[c].user_id
           \/ dbComments[c].post_id \notin DOMAIN dbPosts' ]_vars

\* the author of a comment on the post of another user asked to delete that
\* post and was refused, the comment, the likes and the blob still there
NonOwnerDeleteRefused ==
  /\ srvResp.op = "DELETE /posts"
  /\ srvResp.status = 403
  /\ srvResp.id \in DOMAIN dbPosts
  /\ srvResp.id \in dbBlobs
  /\ \E c \in DOMAIN dbComments :
       dbComments[c].post_id = srvResp.id /\ dbComments[c].user_id = srvResp.who
  /\ srvBudget <= MaxRequests - 2

(***************************************************************************)
(* The life of a post: created, liked, commented, deleted, and read by     *)
(* GET /api/posts/[postId]                                                 *)
(***************************************************************************)
NextPostLife ==
  \/ (\E who \in Callers : \E file \in Files : \E formUserId \in Users :
        PostsPOST(who, file, formUserId))
       /\ UNCHANGED <<auxVars, apiResp, apiReq, richVars, pgVars, clientVars>>
  \/ (\E who \in Callers : \E p \in PostIdSet : PostsDELETE(who, p))
       /\ UNCHANGED <<auxVars, apiResp, apiReq, richVars, pgVars, clientVars>>
  \/ (\E who \in Users : \E p \in PostIdSet : LikesPOST(who, p))
       /\ UNCHANGED <<auxVars, apiResp, apiReq, richVars, pgVars, clientVars>>
  \/ (\E r \in srvPending : LikesPOSTInsert(r))
       /\ UNCHANGED <<auxVars, apiResp, apiReq, richVars, pgVars, clientVars>>
  \/ (\E who \in Users : \E p \in PostIdSet : CommentsPOST(who, p, [core |-> 1, pad |-> 0]))
       /\ UNCHANGED <<auxVars, apiResp, apiReq, richVars, pgVars, clientVars>>
  \/ (\E postId \in PostIdSet : ApiGetDetail(postId))
       /\ UNCHANGED <<auxVars, pgVars, clientVars>>

SpecPostLife == InitServer /\ [][NextPostLife]_vars

\* the ids the store has given to posts that have no row (any more)
Gone(rows, next) == {p \in PostIdSet : p < next.post /\ p \notin DOMAIN rows}

\* no likes row and no comments row references post p
Unreferenced(p) ==
  /\ \A u \in Users : dbLikes[<<p, u>>] = 0
  /\ \A c \in DOMAIN dbComments : dbComments[c].post_id # p

\* C21: when DELETE /api/posts/[postId] answers success, with the blob
\* removed or not, the posts row is gone; a post that is gone stays gone, no
\* likes or comments row references it, and GET /api/posts/[postId] answers
\* 404 for it.
DeletedPostStaysGone ==
  /\ [](\A p \in Gone(dbPosts, srvNext) : Unreferenced(p))
  /\ [][ /\ Responded /\ srvResp'.op = "DELETE /posts" /\ srvResp'.status = 200 =>
              srvResp'.id \in Gone(dbPosts', srvNext')
         /\ Gone(dbPosts, srvNext) \subseteq Gone(dbPosts', srvNext')
         /\ detailResp' # detailResp /\ detailResp'.post_id \in Gone(dbPosts, srvNext) =>
              detailResp'.status = 404 ]_vars

\* GET answered 404 for a post that had a like and a comment and was
\* deleted by its owner while its blob stayed in the bucket
DeletedPostNotFound ==
  /\ detailResp.status = 404
  /\ detailResp.post_id = 1
  /\ 1 \in Gone(dbPosts, srvNext)
  /\ 1 \in dbBlobs
  /\ "u2" \in dbUsers

\* C22: when POST /api/posts has uploaded the image and the insert of the
\* row fails, the answer is an error and neither a posts row nor a blob of
\* the request is left: every blob in the bucket belongs to a posts row or
\* to a post that was deleted.
NoBlobWithoutPost ==
  [][ Responded /\ srvResp'.op = "POST /posts" /\ srvResp'.status # 200 =>
        /\ srvResp'.id \notin DOMAIN dbPosts'
        /\ srvResp'.id \notin dbBlobs' ]_vars

\* C26: PostFeed never has two page fetches outstanding, a fetch asked for
\* while one is outstanding is not sent, and a successful fetch sets the next
\* offset to the offset it asked for plus the number of posts it received.
OneFetchAtATime ==
  /\ [](Len(feedReqs) <= 1 /\ (feed.isFetching <=> Len(feedReqs) = 1))
  /\ [][ /\ Len(feedReqs') > Len(feedReqs) => Len(feedReqs) = 0
         /\ feedEvt'.kind = "fetchOk" /\ Len(feedReqs) = 1 =>
              pgOffset' = feedReqs[1].offset + Len(pgPosts')
                            - (IF feedReqs[1].append THEN Len(pgPosts) ELSE 0) ]_vars

\* the first page has arrived and set the next offset, and the sentinel was
\* seen again while the second page was being fetched: nothing was sent
FetchDroppedWhileLoading ==
  /\ feedEvt.kind = "observerDropped"
  /\ Len(feedReqs) = 1
  /\ feedReqs[1].append /\ feedReqs[1].offset = pgOffset
  /\ pgPages = 1
  /\ pgOffset = Len(pgPosts) /\ pgOffset > 0

(***************************************************************************)
(* The liked posts page after it is mounted, with no user action           *)
(***************************************************************************)
InitLikedLoad ==
  /\ dbPosts = [i \in 1..MaxPosts |-> [user_id |-> "u2", created_at |-> i]]
  /\ dbUsers = Users
  /\ dbComments = <<>>
  /\ dbLikes \in {l \in [PostIdSet \X Users -> 0..1] : \A q \in PostIdSet : l[<<q, "u2">>] = 0}
  /\ ServerIdle
  /\ viewer = "u1"
  /\ apiReq = NoRequest
  /\ apiResp = NoResponse
  /\ apiRich = <<>>
  /\ detailResp = NoDetail
  /\ ClassifierIdle
  /\ activity = [posts |-> <<>>, selectedPostId |-> 0, selectedPostIndex |-> -1,
                 fetches |-> 0, last |-> "init",
                 load |-> [LoadIdle EXCEPT !.effectDue = TRUE]]
  /\ PagerIdle
  /\ ClientIdle

SpecLikedLoad ==
  InitLikedLoad /\ [][NextLikedLoad /\ UNCHANGED <<clsVars, apiVars, pgVars, clientVars>>]_vars

\* effects that are due run, useUser() returns the user, and every request
\* is answered or fails
SpecLikedLoadFair ==
  /\ SpecLikedLoad
  /\ WF_vars(UserLoaded /\ UNCHANGED <<clsVars, apiVars, pgVars, clientVars>>)
  /\ WF_vars(LoadEffect /\ UNCHANGED <<clsVars, apiVars, pgVars, clientVars>>)
  /\ WF_vars(LikedResponse /\ UNCHANGED <<clsVars, apiVars, pgVars, clientVars>>)

\* C29: on the liked posts page, with the user loaded and no user action,
\* the initial load sends finitely many GET /api/likes/user requests: the
\* page comes to rest with no request outstanding and no effect due, and
\* stays there.
LikedLoadQuiesces ==
  <>[](activity.load.user /\ Len(activity.load.reqs) = 0 /\ ~activity.load.effectDue)

\* the page has sent another request after the first was answered
LikedLoadRepeats ==
  /\ activity.load.sent >= 2
  /\ Len(activity.load.reqs) = 1
  /\ activity.load.error = None
  /\ ~activity.load.isLoading

(***************************************************************************)
(* Properties of the mutating endpoints, continued                         *)
(***************************************************************************)
\* C23: DELETE /api/follows of a signed-in caller for a user the caller has
\* no follows row to, and DELETE /api/likes for a post the caller has no
\* likes row for, are answered 404 and leave the tables and the bucket as
\* they were.
MissingRowNotFound ==
  [][ /\ Responded /\ srvResp'.op = "DELETE /follows" /\ srvResp'.who # None
         /\ srvResp'.target # None
         /\ dbFollows[<<srvResp'.who, srvResp'.target>>] = 0 =>
           /\ srvResp'.status = 404
           /\ UNCHANGED <<dbPosts, storeVars>>
      /\ Responded /\ srvResp'.op = "DELETE /likes" /\ srvResp'.who # None
         /\ srvResp'.id # 0
         /\ dbLikes[<<srvResp'.id, srvResp'.who>>] = 0 =>
           /\ srvResp'.status = 404
           /\ UNCHANGED <<dbPosts, storeVars>> ]_vars

\* an unlike was answered 404 because the same caller had already unliked
\* the post
SecondUnlikeNotFound ==
  /\ srvResp.op = "DELETE /likes"
  /\ srvResp.status = 404
  /\ srvResp.who = "u2" /\ srvResp.id = 1
  /\ 1 \in DOMAIN dbPosts
  /\ srvBudget = MaxRequests - 2

(***************************************************************************)
(* Properties of GET /api/posts and of paging                              *)
(***************************************************************************)
\* the page size the handler computes for the pending request
PageSize == MathMin(ParseInt(OrDefault(apiReq.limit, DefaultLimit)), MaxLimit)
Handled == apiResp # NoResponse

\* C8: the pages of size K fetched from offset 0, concatenated, are the same
\* ordered sequence as the same range fetched as one page, with every post
\* of the store present exactly once.
PaginationGapless ==
  (~pgHasMore /\ pgWhole.fetched) =>
    /\ pgPosts = pgWhole.data
    /\ NoDup(pgPosts)
    /\ Range(pgPosts) = DOMAIN dbPosts

\* C9: hasMore is true exactly when the number of posts matching the user
\* filter is greater than offset + limit.
HasMoreExact ==
  (apiResp.status = 200 /\ ~apiResp.offset.nan /\ ~apiResp.limit.nan) =>
    (apiResp.hasMore <=>
       Cardinality(Matching(dbPosts, apiReq.userId)) > apiResp.offset.v + apiResp.limit.v)

\* C10: the page size is 10 when limit is absent, otherwise a number no
\* greater than 50, and a page never holds more posts than the page size.
PageSizeClamped ==
  Handled =>
    /\ ~PageSize.nan
    /\ PageSize.v <= 50
    /\ apiReq.limit = Absent => PageSize.v = 10
    /\ apiResp.status = 200 => Len(apiResp.data) <= PageSize.v

(***************************************************************************)
(* Properties of the like and follow controls                              *)
(***************************************************************************)
Flipped(b, n) == IF n % 2 = 1 THEN ~b ELSE b
Toggles(p) == hist[p].likes + hist[p].unlikes
\* every request the LikeButton of p issued succeeded, and the card was not
\* double-tapped
OnlyGoodToggles(p) == ~hist[p].tapped /\ ~hist[p].failed

\* C1: after LikeButton toggles whose requests all succeeded, with no
\* request outstanding, the displayed isLiked is the initial one flipped once
\* per accepted toggle and the displayed count is the initial count plus
\* accepted likes minus accepted unlikes.
LikeNetEffect ==
  \A p \in FeedIds :
    (card[p].mounted /\ OnlyGoodToggles(p) /\ lbReq[p] = <<>>) =>
      /\ card[p].isLiked = Flipped(hist[p].isLiked0, Toggles(p))
      /\ lb[p].isLiked = Flipped(hist[p].isLiked0, Toggles(p))
      /\ card[p].likesCount = hist[p].likes0 + hist[p].likes - hist[p].unlikes
      /\ lb[p].likesCount = hist[p].likes0 + hist[p].likes - hist[p].unlikes

\* a like followed by an unlike, both successful, is back at the original count
LikeThenUnlikeDone ==
  \E p \in FeedIds :
    /\ card[p].mounted /\ OnlyGoodToggles(p) /\ lbReq[p] = <<>>
    /\ ~hist[p].isLiked0
    /\ hist[p].likes = 1 /\ hist[p].unlikes = 1
    /\ card[p].likesCount = hist[p].likes0

\* C2: a toggle invoked on a like or follow control while a request of that
\* control is outstanding changes nothing and issues no request; a control
\* never has two requests outstanding.
ToggleWhileOutstandingDropped ==
  [][ /\ \A p \in FeedIds :
          (evt'.kind \in {"likeToggle", "likeDropped"} /\ evt'.post = p
             /\ budget' < budget /\ lbReq[p] # <<>>) =>
            UNCHANGED <<posts, card, lb, lbReq, tapReqs>>
      /\ (evt'.kind \in {"followToggle", "followDropped"}
             /\ budget' < budget /\ followReq # <<>>) =>
            UNCHANGED <<follow, followReq>>
      /\ \A p \in FeedIds : Len(lbReq'[p]) <= 1
      /\ Len(followReq') <= 1 ]_vars

\* toggles were dropped on both controls while their requests were outstanding
BothTogglesDropped ==
  /\ evt.kind = "followDropped"
  /\ Len(followReq) = 1
  /\ \E p \in FeedIds : Len(lbReq[p]) = 1 /\ hist[p].dropped

\* C3: when the request of a LikeButton toggle fails, after any history of
\* LikeButton toggles, the displayed isLiked and likes count are the ones
\* displayed immediately before that toggle, and an error toast is shown.
LikeFailureRestores ==
  [][ \A p \in FeedIds :
        (evt'.kind = "likeFail" /\ evt'.post = p /\ Len(lbReq'[p]) < Len(lbReq[p])
           /\ card[p].mounted /\ ~hist[p].tapped) =>
          /\ lb'[p].isLiked = hist[p].snapIsLiked
          /\ lb'[p].likesCount = hist[p].snapLikesCount
          /\ card'[p] = hist[p].snapCard
          /\ evt'.toast ]_vars

\* a toggle failed after an earlier toggle had succeeded and another had failed
LikeFailedAfterHistory ==
  \E p \in FeedIds :
    /\ evt.kind = "likeFail" /\ evt.post = p
    /\ ~hist[p].tapped
    /\ Toggles(p) >= 3
    /\ card[p].likesCount # hist[p].likes0

\* C25: when the like or unlike sent by a double tap on the image fails
\* (network error or a status that is not 2xx), the card displays the
\* isLiked and likes count it displayed before the double tap.  Stated for
\* a double tap that is the first thing done on the page, so that the values
\* before it are the ones the card was mounted with.
TapFailureRestores ==
  [][ \A p \in FeedIds :
        (evt'.kind = "tapFail" /\ evt'.post = p /\ hist[p].tapped
           /\ budget = MaxActions - 1 /\ card[p].mounted) =>
          /\ card'[p].isLiked = hist[p].isLiked0
          /\ card'[p].likesCount = hist[p].likes0 ]_vars

(***************************************************************************)
(* Properties of the comments of the feed                                  *)
(***************************************************************************)
CountOf(ps, p) == PostOf(ps, p).comments_count
OthersKeepCount(p) ==
  \A q \in Loaded(posts) \ {p} : q \in Loaded(posts') /\ CountOf(posts', q) = CountOf(posts, q)

\* C4: when a comment deletion issued from a card fails, every loaded post
\* has the comments_count and recentComments it had before the deletion.
CommentDeleteFailureRestores ==
  [][ \A r \in delReqs :
        (evt'.kind = "commentDelFail" /\ r \notin delReqs') =>
          \A i \in DOMAIN r.before :
            /\ i \in DOMAIN posts'
            /\ posts'[i].comments_count = r.before[i].comments_count
            /\ posts'[i].recentComments = r.before[i].recentComments ]_vars

\* C5: a comment submission from a card adds exactly 1 to the post's
\* comments_count when it is sent, a success leaves that count and a failure
\* takes exactly that 1 back; no step of it changes another post's count.
CommentCountByOne ==
  [][ \A p \in Loaded(posts) :
        /\ (evt'.kind = "commentSubmit" /\ evt'.post = p /\ cmtReqs'[p] > cmtReqs[p]) =>
             CountOf(posts', p) = CountOf(posts, p) + 1 /\ OthersKeepCount(p)
        /\ (evt'.kind = "commentOk" /\ evt'.post = p /\ cmtReqs'[p] < cmtReqs[p]) =>
             CountOf(posts', p) = CountOf(posts, p) /\ OthersKeepCount(p)
        /\ (evt'.kind = "commentFail" /\ evt'.post = p /\ cmtReqs'[p] < cmtReqs[p]) =>
             CountOf(posts', p) = CountOf(posts, p) - 1 /\ OthersKeepCount(p) ]_vars

\* a submission failed on a post whose count had been brought to the least
\* value it can have by deleting its comments while the request was outstanding
CommentFailedAtLowCount ==
  \E p \in Loaded(posts) :
    /\ evt.kind = "commentFail" /\ evt.post = p
    /\ CountOf(posts, p) = 0
    /\ \E r \in delReqs : r.post = p

(***************************************************************************)
(* The feed loading its pages from one store content                       *)
(***************************************************************************)
ScrollStores ==
  {[i \in 1..n |-> [user_id |-> "u1", created_at |-> i]] : n \in 0..MaxPosts}

InitScroll ==
  /\ dbPosts \in ScrollStores
  /\ apiReq = NoRequest
  /\ apiResp = NoResponse
  /\ StoreIdle
  /\ pgK \in 1..MaxK
  /\ pgOffset = 0
  /\ pgPosts = <<>>
  /\ pgHasMore = TRUE
  /\ pgPages = 0
  /\ pgWhole = [fetched |-> TRUE, data |-> <<>>]
  /\ feed = FeedUnmounted
  /\ feedReqs = <<>>
  /\ feedEvt = NoFeedEvt
  /\ feedBudget = MaxScrolls
  /\ ClientIdle

SpecScroll == InitScroll /\ [][NextScroll /\ UNCHANGED <<auxVars, apiVars, clientVars>>]_vars

(***************************************************************************)
(* PostFeed loading its pages while posts are created and deleted          *)
(***************************************************************************)
\* PostMenu's onDelete for a post of the feed whose row is deleted:
\* PostFeed.handleDelete filters it out of the loaded posts
FeedHandleDelete(p) ==
  /\ p \in Range(pgPosts)
  /\ p \notin DOMAIN dbPosts
  /\ pgPosts' = SelectSeq(pgPosts, LAMBDA q : q # p)
  /\ feedEvt' = [kind |-> "handleDelete", threw |-> FALSE]
  /\ UNCHANGED <<pgK, pgOffset, pgHasMore, pgPages, pgWhole, feed, feedReqs, feedBudget>>

InitLiveFeed ==
  /\ dbPosts \in ScrollStores
  /\ dbUsers = {"u1"}
  /\ dbComments = <<>>
  /\ dbLikes = NoLikes
  /\ dbFollows = NoFollows
  /\ dbBlobs = DOMAIN dbPosts
  /\ srvResp = NoSrvResp
  /\ srvPending = {}
  /\ srvNext = [post |-> Len(dbPosts) + 1, comment |-> 1]
  /\ srvBudget = MaxRequests
  /\ ClassifierIdle
  /\ ActivityIdle
  /\ apiReq = NoRequest
  /\ apiResp = NoResponse
  /\ viewer = None
  /\ apiRich = <<>>
  /\ detailResp = NoDetail
  /\ pgK \in 1..MaxK
  /\ pgOffset = 0
  /\ pgPosts = <<>>
  /\ pgHasMore = TRUE
  /\ pgPages = 0
  /\ pgWhole = [fetched |-> TRUE, data |-> <<>>]
  /\ feed = FeedUnmounted
  /\ feedReqs = <<>>
  /\ feedEvt = NoFeedEvt
  /\ feedBudget = MaxScrolls
  /\ ClientIdle

NextLiveFeed ==
  \/ NextScroll /\ UNCHANGED <<auxVars, apiVars, clientVars>>
  \/ PostsPOST("u1", "image", "u1")
       /\ UNCHANGED <<auxVars, apiResp, apiReq, richVars, pgVars, clientVars>>
  \/ (\E p \in PostIdSet : PostsDELETE("u1", p))
       /\ UNCHANGED <<auxVars, apiResp, apiReq, richVars, pgVars, clientVars>>
  \/ (\E p \in PostIdSet : FeedHandleDelete(p))
       /\ UNCHANGED <<auxVars, apiVars, clientVars>>

SpecLiveFeed == InitLiveFeed /\ [][NextLiveFeed]_vars

\* C24: the loaded posts of PostFeed never hold the same post id twice,
\* after any sequence of initial load, appended pages and retries, with
\* posts created and deleted in the store between the fetches.
FeedHasNoDuplicate == NoDup(pgPosts)

\* a post was created after the first page was loaded, and the second page
\* starts with the last post of the first
PageRepeatsPost ==
  /\ Len(pgPosts) = 2
  /\ pgPosts[1] = pgPosts[2]
  /\ pgPages = 2
  /\ srvResp.op = "POST /posts" /\ srvResp.status = 200
  /\ srvBudget = MaxRequests - 1

\* C13: when a page fetch fails, hasMore becomes false, a classified error is
\* set, no exception leaves fetchPosts and the fetch-in-progress flag is
\* released; from then on no fetch is issued except by the retry button.
FetchFailureHalts ==
  [][ /\ feedEvt'.kind = "fetchFail" /\ Len(feedReqs') < Len(feedReqs) =>
           /\ ~pgHasMore'
           /\ feed'.error \in {"NETWORK_ERROR", "BAD_REQUEST", "UNAUTHORIZED", "FORBIDDEN",
                                "NOT_FOUND", "CONFLICT", "SERVER_ERROR", "UNKNOWN_ERROR"}
           /\ ~feedEvt'.threw
           /\ ~feed'.isFetching
      /\ (feed.halted /\ Len(feedReqs') > Len(feedReqs)) => feedEvt'.kind = "retry" ]_vars

\* a page fetch failed after a page had been loaded, the user retried, and
\* the retry failed too
SecondFailureAfterRetry ==
  /\ feedEvt.kind = "fetchFail"
  /\ feed.halted /\ ~pgHasMore /\ feed.error # None
  /\ Len(pgPosts) > 0
  /\ feedBudget <= MaxScrolls - 2

(***************************************************************************)
(* The error classifier on every response and error                        *)
(***************************************************************************)
InitClassify ==
  /\ clsIn \in [response : {0} \cup Statuses, error : ErrorValues]
  /\ clsOut = NoClassified
  /\ ActivityIdle
  /\ dbPosts = <<>>
  /\ apiReq = NoRequest
  /\ apiResp = NoResponse
  /\ dbUsers = {}
  /\ dbComments = <<>>
  /\ ServerIdle
  /\ dbLikes = NoLikes
  /\ viewer = None
  /\ apiRich = <<>>
  /\ detailResp = NoDetail
  /\ PagerIdle
  /\ ClientIdle

NextClassify == Classify /\ UNCHANGED <<navVars, apiVars, pgVars, clientVars>>

SpecClassify == InitClassify /\ [][NextClassify]_vars

\* C15: the classifier returns NETWORK_ERROR when no response was received,
\* and otherwise the kind of the status: 400 BAD_REQUEST, 401 UNAUTHORIZED,
\* 403 FORBIDDEN, 404 NOT_FOUND, 409 CONFLICT, 500 to 599 SERVER_ERROR and
\* UNKNOWN_ERROR for every other status.
ClassifiedByStatus ==
  clsOut # NoClassified =>
    IF clsIn.response = 0 THEN clsOut = "NETWORK_ERROR"
    ELSE LET st == clsIn.response
         IN clsOut = (CASE st = 400 -> "BAD_REQUEST"
                        [] st = 401 -> "UNAUTHORIZED"
                        [] st = 403 -> "FORBIDDEN"
                        [] st = 404 -> "NOT_FOUND"
                        [] st = 409 -> "CONFLICT"
                        [] st >= 500 /\ st <= 599 -> "SERVER_ERROR"
                        [] OTHER -> "UNKNOWN_ERROR")

(***************************************************************************)
(* GET with the like state and the recent comments                         *)
(***************************************************************************)
PageStores ==
  {[i \in 1..n |-> [user_id |-> "u1", created_at |-> i]] : n \in 1..MaxPagePosts}
PageRequests == {NoRequest, [NoRequest EXCEPT !.limit = <<"1">>]}

\* one request on a store whose posts have comments, the comments numbered
\* in the order of their creation and no more than two created at a time
InitRecent ==
  /\ dbPosts \in PageStores
  /\ apiReq \in PageRequests
  /\ apiResp = NoResponse
  /\ dbUsers = {"u1"}
  /\ dbComments \in {cs \in UNION {[1..n -> [post_id : DOMAIN dbPosts, user_id : {"u1"},
                                             created_at : 1..MaxCTime, len : {1}]]
                                      : n \in 0..MaxCmts} :
                       /\ \A c, d \in DOMAIN cs : c < d => cs[c].created_at <= cs[d].created_at
                       /\ \A t \in 1..MaxCTime :
                            Cardinality({c \in DOMAIN cs : cs[c].created_at = t}) <= 2}
  /\ ServerIdle
  /\ dbLikes = NoLikes
  /\ viewer = None
  /\ apiRich = <<>>
  /\ detailResp = NoDetail
  /\ PagerIdle
  /\ ClientIdle
  /\ ClassifierIdle
  /\ ActivityIdle

\* one request of a viewer on a store whose posts have likes
InitLiked ==
  /\ dbPosts \in PageStores
  /\ apiReq = NoRequest
  /\ apiResp = NoResponse
  /\ dbUsers \in {{"u1"}, Users}
  /\ dbComments = <<>>
  /\ ServerIdle
  /\ dbLikes \in {l \in [PostIdSet \X Users -> 0..1] :
                    \A x \in PostIdSet \X Users :
                      l[x] > 0 => x[1] \in DOMAIN dbPosts /\ x[2] \in dbUsers}
  /\ viewer \in {None} \cup Users
  /\ apiRich = <<>>
  /\ detailResp = NoDetail
  /\ PagerIdle
  /\ ClientIdle
  /\ ClassifierIdle
  /\ ActivityIdle

NextRich ==
  \/ ApiGetRich /\ UNCHANGED <<auxVars, pgVars, clientVars>>
  \/ (\E postId \in PostIdSet : ApiGetDetail(postId)) /\ UNCHANGED <<auxVars, pgVars, clientVars>>

SpecRecent == InitRecent /\ [][NextRich]_vars
SpecLiked == InitLiked /\ [][NextRich]_vars

CommentsOf(p) == {c \in DOMAIN dbComments : dbComments[c].post_id = p}

\* C11: for every post of a page, recentComments holds the two most recently
\* created comments of the post (all of them when it has fewer), newest first.
RecentCommentsNewestTwo ==
  apiResp.status = 200 =>
    \A i \in DOMAIN apiRich :
      LET rc == apiRich[i].recentComments
          mine == CommentsOf(apiRich[i].post_id)
      IN /\ Len(rc) = Min(2, Cardinality(mine))
         /\ NoDup(rc)
         /\ Range(rc) \subseteq mine
         /\ \A j, k \in DOMAIN rc :
              j < k => dbComments[rc[j]].created_at >= dbComments[rc[k]].created_at
         /\ \A c \in mine \ Range(rc) : \A d \in Range(rc) :
              dbComments[c].created_at <= dbComments[d].created_at

\* the like state of the posts of a page
ListIsLikedIffLikeRow ==
  apiResp.status = 200 =>
    \A i \in DOMAIN apiRich :
      apiRich[i].isLiked <=>
        (viewer # None /\ dbLikes[<<apiRich[i].post_id, viewer>>] > 0)

\* the like state of the post of a detail response
DetailIsLikedIffLikeRow ==
  detailResp.status = 200 =>
    (detailResp.isLiked <=>
       (viewer # None /\ dbLikes[<<detailResp.post_id, viewer>>] > 0))

\* C12: isLiked of a post returned by GET /api/posts and by
\* GET /api/posts/[postId] is true exactly when the viewer is signed in and
\* the likes table has a row for that post and that viewer.
IsLikedIffLikeRow == ListIsLikedIffLikeRow /\ DetailIsLikedIffLikeRow

(***************************************************************************)
(* Properties of the displayed counts and of the order of apply and request*)
(***************************************************************************)
\* C6: every displayed like count and every displayed comment count is
\* greater than or equal to 0 in every reachable state.
CountsNonNegative ==
  /\ \A p \in FeedIds : card[p].mounted => card[p].likesCount >= 0
  /\ \A i \in DOMAIN posts : posts[i].comments_count >= 0
  /\ modal.comments_count >= 0

\* a step that issues a request of a LikeButton, of a double tap or of a
\* comment form or comment list of a card shows the new state
CardApplied ==
  \A p \in FeedIds :
    /\ Len(lbReq'[p]) > Len(lbReq[p]) =>
         /\ lb'[p].isLiked = ~lb[p].isLiked
         /\ lb'[p].likesCount = lb[p].likesCount + (IF lb'[p].isLiked THEN 1 ELSE -1)
    /\ (\E m \in Methods : tapReqs'[p][m] > tapReqs[p][m]) =>
         /\ card'[p].isLiked = ~card[p].isLiked
         /\ card'[p].likesCount = card[p].likesCount + (IF card'[p].isLiked THEN 1 ELSE -1)
    /\ cmtReqs'[p] > cmtReqs[p] => CountOf(posts', p) = CountOf(posts, p) + 1
    /\ \A r \in delReqs' \ delReqs :
         r.post = p =>
           /\ r.id \in Range(PostOf(posts, p).recentComments)
           /\ r.id \notin Range(PostOf(posts', p).recentComments)
           /\ CountOf(posts', p) = CountOf(posts, p) - 1

====
